---------------------------- MODULE Spec2Model ----------------------------
(***************************************************************************)
(* Model of the block-cipher mode-of-operation engine (block_template.c)   *)
(* and of the CTR counter generator (_counter.c).                          *)
(*                                                                         *)
(* Byte strings are sequences of integers 0..255.  Offsets keep the C      *)
(* convention (0-based); a[i] of the C code is a[i+1] here.                *)
(***************************************************************************)
EXTENDS Integers, Sequences, FiniteSets, TLC

VARIABLES
    BLOCK_SIZE,   \* the BLOCK_SIZE macro of the cipher module being built
    self,         \* the ALGobject
    ctr,          \* the PCT_CounterObject self->counter refers to
    gen,          \* the external callable self->counter refers to
    call,         \* the last method call and what it returned
    ncalls,       \* number of method calls made so far
    emitted,      \* Counter: the strings returned by successful calls
    nemitted,     \* Counter: how many calls returned a string
    ctr0,         \* Counter: the object as constructed
    twin,         \* a second, identically constructed ALGobject
    twinctr,      \* the twin's PCT_CounterObject
    twingen,      \* the twin's external callable
    fed,          \* the strings given to self so far, concatenated
    got,          \* the strings returned by self so far, concatenated
    twincall      \* the twin's last method call and what it returned

vars == <<BLOCK_SIZE, self, ctr, gen, call, ncalls, emitted, nemitted, ctr0,
          twin, twinctr, twingen, fed, got, twincall>>

-----------------------------------------------------------------------------
(* Bounds of the model *)

\* Counter specification: number of calls of the counter object
MaxCounterCalls == 258

\* number of encrypt/decrypt calls made on one engine
MaxCalls == 2

\* input strings are up to MaxBlocks blocks long, give or take a few bytes
MaxBlocks == 2

-----------------------------------------------------------------------------
(* Bytes *)

Byte == 0..255

NULL == "NULL"

RECURSIVE XorBits(_, _, _)
XorBits(a, b, n) ==
    IF n = 0 THEN 0
    ELSE (((a % 2) + (b % 2)) % 2) + 2 * XorBits(a \div 2, b \div 2, n - 1)

\* the C operator ^ on unsigned char
XorTable == [a \in Byte |-> [b \in Byte |-> XorBits(a, b, 8)]]

Xor(a, b) == XorTable[a][b]

\* a[0..n-1] ^ b[0..n-1]
XorSeq(a, b) == [j \in 1..Len(a) |-> Xor(a[j], b[j])]

\* memcpy/memmove source: s[off .. off+n-1]
Bytes(s, off, n) == SubSeq(s, off + 1, off + n)

\* memcpy(d + off, src, Len(src))
Poke(d, off, src) ==
    [j \in 1..Len(d) |->
        IF j > off /\ j <= off + Len(src) THEN src[j - off] ELSE d[j]]

Zeros(n) == [j \in 1..n |-> 0]

-----------------------------------------------------------------------------
(* _counter.c *)

\* CounterObject_init that leaves the carry set
CounterObject_init_carryset(prefix, suffix, initval, allow_wraparound, disable_shortcut) ==
    IF Len(initval) < 1 THEN [err |-> "ValueError", obj |-> NULL]
    ELSE IF Len(initval) > 65535 THEN [err |-> "ValueError", obj |-> NULL]
    ELSE IF Len(prefix) > 65535 THEN [err |-> "ValueError", obj |-> NULL]
    ELSE IF Len(suffix) > 65535 THEN [err |-> "ValueError", obj |-> NULL]
    ELSE [err |-> "none",
          obj |-> [prefix |-> prefix,
                   suffix |-> suffix,
                   nbytes |-> Len(initval),
                   buf_size |-> Len(prefix) + Len(suffix) + Len(initval),
                   val |-> prefix \o initval \o suffix,
                   p |-> Len(prefix),
                   shortcut_disabled |-> disable_shortcut,
                   allow_wraparound |-> allow_wraparound,
                   carry |-> 1,
                   inc_func |-> NULL]]

\* CounterObject_init: the object, or the error raised
CounterObject_init(prefix, suffix, initval, allow_wraparound, disable_shortcut) ==
    IF Len(initval) < 1 THEN [err |-> "ValueError", obj |-> NULL]
    ELSE IF Len(initval) > 65535 THEN [err |-> "ValueError", obj |-> NULL]
    ELSE IF Len(prefix) > 65535 THEN [err |-> "ValueError", obj |-> NULL]
    ELSE IF Len(suffix) > 65535 THEN [err |-> "ValueError", obj |-> NULL]
    ELSE [err |-> "none",
          obj |-> [prefix |-> prefix,
                   suffix |-> suffix,
                   nbytes |-> Len(initval),
                   buf_size |-> Len(prefix) + Len(suffix) + Len(initval),
                   val |-> prefix \o initval \o suffix,
                   p |-> Len(prefix),
                   shortcut_disabled |-> disable_shortcut,
                   allow_wraparound |-> allow_wraparound,
                   carry |-> 0,
                   inc_func |-> NULL]]

\* CounterLE_new / CounterBE_new: init, then the inc_func pointer is set
Counter_new(endian, prefix, suffix, initval, allow_wraparound, disable_shortcut) ==
    LET r == CounterObject_init(prefix, suffix, initval, allow_wraparound,
                                disable_shortcut)
    IN  IF r.err # "none" THEN r
        ELSE [r EXCEPT !.obj = [r.obj EXCEPT !.inc_func = endian]]

\* the loop of CounterLEObject_increment that drops the carry between bytes
RECURSIVE LE_loop_dropcarry(_, _, _)
LE_loop_dropcarry(c, i, carry) ==
    IF i >= c.nbytes THEN [c EXCEPT !.carry = carry]
    ELSE LET tmp == c.val[c.p + i + 1] + carry
         IN  LE_loop_dropcarry([c EXCEPT !.val[c.p + i + 1] = tmp % 256],
                               i + 1, IF i + 1 < c.nbytes THEN 0
                                      ELSE tmp \div 256)

\* the loop of CounterLEObject_increment: byte i of the value, upwards
RECURSIVE LE_loop(_, _, _)
LE_loop(c, i, carry) ==
    IF i >= c.nbytes THEN [c EXCEPT !.carry = carry]
    ELSE LET tmp == c.val[c.p + i + 1] + carry
         IN  LE_loop([c EXCEPT !.val[c.p + i + 1] = tmp % 256], i + 1,
                     tmp \div 256)

\* CounterLEObject_increment that leaves self->carry as it was
CounterLEObject_increment_nocarry(c) == [LE_loop(c, 0, 1) EXCEPT !.carry = c.carry]

CounterLEObject_increment(c) == LE_loop(c, 0, 1)

\* the loop of CounterBEObject_increment: from the last byte downwards
RECURSIVE BE_loop(_, _, _)
BE_loop(c, i, carry) ==
    IF i >= c.nbytes THEN [c EXCEPT !.carry = carry]
    ELSE LET k == c.p + (c.nbytes - 1 - i) + 1
             tmp == c.val[k] + carry
         IN  BE_loop([c EXCEPT !.val[k] = tmp % 256], i + 1, tmp \div 256)

\* CounterBEObject_increment that leaves self->carry as it was
CounterBEObject_increment_nocarry(c) == [BE_loop(c, 0, 1) EXCEPT !.carry = c.carry]

CounterBEObject_increment(c) == BE_loop(c, 0, 1)

inc_func(c) ==
    IF c.inc_func = "LE" THEN CounterLEObject_increment(c)
    ELSE CounterBEObject_increment(c)

\* CounterObject_call without the carry check
CounterObject_call_nocheck(c) ==
    [ctr |-> inc_func(c), retval |-> c.val, err |-> "none"]

\* the next() whose failure clears the carry
CounterObject_call_clearcarry(c) ==
    IF c.carry # 0 /\ c.allow_wraparound = 0
    THEN [ctr |-> [c EXCEPT !.carry = 0], retval |-> <<>>, err |-> "overflow"]
    ELSE [ctr |-> inc_func(c), retval |-> c.val, err |-> "none"]

\* CounterObject_call: the next() of the counter.  The string object returned
\* carries the buf_size bytes of val; retval is meaningful when err = "none".
CounterObject_call(c) ==
    IF c.carry # 0 /\ c.allow_wraparound = 0
    THEN [ctr |-> c, retval |-> <<>>, err |-> "overflow"]
    ELSE [ctr |-> inc_func(c), retval |-> c.val, err |-> "none"]

\* the loop of _CounterObject_next_value that starts at the wrong end
RECURSIVE NV_loop_swapped(_, _, _, _)
NV_loop_swapped(c, little_endian, i, x) ==
    IF i >= c.nbytes THEN x
    ELSE LET off == IF little_endian = 1 THEN i ELSE c.nbytes - 1 - i
         IN  NV_loop_swapped(c, little_endian, i + 1,
                             x * 256 + c.val[c.p + off + 1])

\* the loop of _CounterObject_next_value: x = (x << 8) | *p
RECURSIVE NV_loop(_, _, _, _)
NV_loop(c, little_endian, i, x) ==
    IF i >= c.nbytes THEN x
    ELSE LET off == IF little_endian = 1 THEN c.nbytes - 1 - i ELSE i
         IN  NV_loop(c, little_endian, i + 1, x * 256 + c.val[c.p + off + 1])

\* _CounterObject_next_value: the numeric value, without advancing
CounterObject_next_value(c) ==
    IF c.carry # 0 /\ c.allow_wraparound = 0
    THEN [ctr |-> c, retval |-> -1, err |-> "overflow"]
    ELSE [ctr |-> c,
          retval |-> NV_loop(c, IF c.inc_func = "LE" THEN 1 ELSE 0, 0, 0),
          err |-> "none"]

-----------------------------------------------------------------------------
(* The block cipher primitive the template is instantiated with: a keyed   *)
(* permutation of the strings of BLOCK_SIZE bytes.                         *)

\* block_init: the key schedule
block_init(key) == [k |-> (Len(key) * 16 + key[1]) % 256]

\* block_encrypt(st, in, out)
block_encrypt(st, in) ==
    [j \in 1..Len(in) |-> (5 * in[(j % Len(in)) + 1] + st.k + j) % 256]

\* block_decrypt(st, in, out): the inverse permutation (5 * 205 = 1 mod 256)
block_decrypt(st, in) ==
    [j \in 1..Len(in) |->
        LET i == IF j = 1 THEN Len(in) ELSE j - 1
        IN  (205 * ((in[i] + 512 - st.k - i) % 256)) % 256]

-----------------------------------------------------------------------------
(* block_template.c *)

KEY_SIZE == 0

MODE_ECB == 1
MODE_CBC == 2
MODE_CFB == 3
MODE_PGP == 4
MODE_OFB == 5
MODE_CTR == 6

\* newALGobject
newALGobject ==
    [mode |-> MODE_ECB, counter |-> NULL, counter_shortcut |-> 0, prf_mode |-> 0]

\* ALGnew without the check of segment_size
ALGnew_anysegment(key, mode, IV, counter, segment_size, c) ==
    LET seg == IF mode = MODE_CFB /\ segment_size = 0 THEN 8 ELSE segment_size
        shortcut == IF mode = MODE_CTR /\ counter = "Counter"
                       /\ c.shortcut_disabled = 0 THEN 1 ELSE 0
        Fail(e) == [err |-> e, obj |-> NULL]
    IN  IF KEY_SIZE # 0 /\ Len(key) # KEY_SIZE THEN Fail("ValueError")
        ELSE IF KEY_SIZE = 0 /\ Len(key) = 0 THEN Fail("ValueError")
        ELSE IF Len(IV) # BLOCK_SIZE /\ Len(IV) # 0 THEN Fail("ValueError")
        ELSE IF mode < MODE_ECB \/ mode > MODE_CTR THEN Fail("ValueError")
        ELSE IF mode = MODE_CTR /\ counter = NULL THEN Fail("TypeError")
        ELSE IF mode = MODE_CTR /\ counter = "object" THEN Fail("ValueError")
        ELSE IF mode # MODE_CTR /\ counter # NULL THEN Fail("ValueError")
        ELSE [err |-> "none",
              obj |-> [mode |-> mode,
                       segment_size |-> seg,
                       counter |-> counter,
                       counter_shortcut |-> shortcut,
                       prf_mode |-> newALGobject.prf_mode,
                       st |-> block_init(key),
                       IV |-> Poke(Zeros(BLOCK_SIZE), 0, IV),
                       oldCipher |-> Zeros(BLOCK_SIZE),
                       count |-> IF mode = MODE_PGP THEN 8 ELSE BLOCK_SIZE]]

\* ALGnew.  counter is NULL, "Counter" (the PCT_CounterObject c), "callable"
\* (an external callable) or "object" (an object that cannot be called).
ALGnew(key, mode, IV, counter, segment_size, c) ==
    LET seg == IF mode = MODE_CFB /\ segment_size = 0 THEN 8 ELSE segment_size
        shortcut == IF mode = MODE_CTR /\ counter = "Counter"
                       /\ c.shortcut_disabled = 0 THEN 1 ELSE 0
        Fail(e) == [err |-> e, obj |-> NULL]
    IN  IF KEY_SIZE # 0 /\ Len(key) # KEY_SIZE THEN Fail("ValueError")
        ELSE IF KEY_SIZE = 0 /\ Len(key) = 0 THEN Fail("ValueError")
        ELSE IF Len(IV) # BLOCK_SIZE /\ Len(IV) # 0 THEN Fail("ValueError")
        ELSE IF mode < MODE_ECB \/ mode > MODE_CTR THEN Fail("ValueError")
        ELSE IF mode = MODE_CFB
                /\ (seg < 1 \/ seg > BLOCK_SIZE * 8 \/ seg % 8 # 0)
             THEN Fail("ValueError")
        ELSE IF mode = MODE_CTR /\ counter = NULL THEN Fail("TypeError")
        ELSE IF mode = MODE_CTR /\ counter = "object" THEN Fail("ValueError")
        ELSE IF mode # MODE_CTR /\ counter # NULL THEN Fail("ValueError")
        ELSE [err |-> "none",
              obj |-> [mode |-> mode,
                       segment_size |-> seg,
                       counter |-> counter,
                       counter_shortcut |-> shortcut,
                       prf_mode |-> newALGobject.prf_mode,
                       st |-> block_init(key),
                       IV |-> Poke(Zeros(BLOCK_SIZE), 0, IV),
                       oldCipher |-> Zeros(BLOCK_SIZE),
                       count |-> IF mode = MODE_PGP THEN 8 ELSE BLOCK_SIZE]]

\* what a method returns: the objects after the call, the string returned
\* (meaningful when err = "none") and the error raised
Ret(s, c, g, result, err) ==
    [self |-> s, ctr |-> c, gen |-> g, result |-> result, err |-> err]

\* MODE_ECB of ALG_Encrypt
RECURSIVE ECB_Encrypt(_, _, _)
ECB_Encrypt(s, str, i) ==
    IF i >= Len(str) THEN <<>>
    ELSE block_encrypt(s.st, Bytes(str, i, BLOCK_SIZE))
         \o ECB_Encrypt(s, str, i + BLOCK_SIZE)

\* MODE_ECB of ALG_Decrypt
RECURSIVE ECB_Decrypt(_, _, _)
ECB_Decrypt(s, str, i) ==
    IF i >= Len(str) THEN <<>>
    ELSE block_decrypt(s.st, Bytes(str, i, BLOCK_SIZE))
         \o ECB_Decrypt(s, str, i + BLOCK_SIZE)

\* MODE_CBC of ALG_Encrypt that saves self->IV in self->oldCipher
RECURSIVE CBC_Encrypt_saveiv(_, _, _, _)
CBC_Encrypt_saveiv(s, str, i, buffer) ==
    IF i >= Len(str) THEN [self |-> s, buffer |-> buffer]
    ELSE LET temp == XorSeq(Bytes(str, i, BLOCK_SIZE), s.IV)
             blk == block_encrypt(s.st, temp)
         IN  CBC_Encrypt_saveiv([s EXCEPT !.oldCipher = s.IV, !.IV = blk],
                                str, i + BLOCK_SIZE, buffer \o blk)

\* MODE_CBC of ALG_Encrypt: [self, buffer] after the loop from offset i
RECURSIVE CBC_Encrypt(_, _, _, _)
CBC_Encrypt(s, str, i, buffer) ==
    IF i >= Len(str) THEN [self |-> s, buffer |-> buffer]
    ELSE LET temp == XorSeq(Bytes(str, i, BLOCK_SIZE), s.IV)
             blk == block_encrypt(s.st, temp)
         IN  CBC_Encrypt([s EXCEPT !.IV = blk], str, i + BLOCK_SIZE,
                         buffer \o blk)

\* MODE_CBC of ALG_Decrypt that leaves self->IV as it was
RECURSIVE CBC_Decrypt_keepiv(_, _, _, _)
CBC_Decrypt_keepiv(s, str, i, buffer) ==
    IF i >= Len(str) THEN [self |-> s, buffer |-> buffer]
    ELSE LET in == Bytes(str, i, BLOCK_SIZE)
             temp == block_decrypt(s.st, in)
         IN  CBC_Decrypt_keepiv([s EXCEPT !.oldCipher = s.IV], str,
                                i + BLOCK_SIZE, buffer \o XorSeq(temp, s.IV))

\* MODE_CBC of ALG_Decrypt
RECURSIVE CBC_Decrypt(_, _, _, _)
CBC_Decrypt(s, str, i, buffer) ==
    IF i >= Len(str) THEN [self |-> s, buffer |-> buffer]
    ELSE LET in == Bytes(str, i, BLOCK_SIZE)
             temp == block_decrypt(s.st, in)
         IN  CBC_Decrypt([s EXCEPT !.oldCipher = s.IV, !.IV = in], str,
                         i + BLOCK_SIZE, buffer \o XorSeq(temp, s.IV))

\* the IV update that puts the new segment in front of the shifted bytes
CFB_ShiftGeneral_front(s, cseg, sz) ==
    [s EXCEPT !.IV = Bytes(cseg, 0, sz) \o Bytes(s.IV, sz, BLOCK_SIZE - sz)]

\* the general IV update of MODE_CFB: memmove of the last BLOCK_SIZE - sz
\* bytes to the front, memcpy of the sz bytes of cseg behind them
CFB_ShiftGeneral(s, cseg, sz) ==
    [s EXCEPT !.IV = Bytes(s.IV, sz, BLOCK_SIZE - sz) \o Bytes(cseg, 0, sz)]

\* the IV update of MODE_CFB that skips the case of a whole block
CFB_Shift_keepiv(s, cseg) ==
    IF s.segment_size = BLOCK_SIZE * 8 THEN s
    ELSE IF s.segment_size % 8 = 0
    THEN CFB_ShiftGeneral(s, cseg, s.segment_size \div 8)
    ELSE s

\* the IV update of MODE_CFB, with the ciphertext segment cseg
CFB_Shift(s, cseg) ==
    IF s.segment_size = BLOCK_SIZE * 8 THEN [s EXCEPT !.IV = cseg]
    ELSE IF s.segment_size % 8 = 0
    THEN CFB_ShiftGeneral(s, cseg, s.segment_size \div 8)
    ELSE s

\* MODE_CFB of ALG_Encrypt
RECURSIVE CFB_Encrypt(_, _, _, _)
CFB_Encrypt(s, str, i, buffer) ==
    IF i >= Len(str) THEN [self |-> s, buffer |-> buffer]
    ELSE LET sz == s.segment_size \div 8
             temp == block_encrypt(s.st, s.IV)
             cseg == XorSeq(Bytes(str, i, sz), Bytes(temp, 0, sz))
         IN  CFB_Encrypt(CFB_Shift(s, cseg), str, i + sz, buffer \o cseg)

\* MODE_CFB of ALG_Decrypt
RECURSIVE CFB_Decrypt(_, _, _, _)
CFB_Decrypt(s, str, i, buffer) ==
    IF i >= Len(str) THEN [self |-> s, buffer |-> buffer]
    ELSE LET sz == s.segment_size \div 8
             temp == block_encrypt(s.st, s.IV)
             in == Bytes(str, i, sz)
         IN  CFB_Decrypt(CFB_Shift(s, in), str, i + sz,
                         buffer \o XorSeq(in, Bytes(temp, 0, sz)))

\* MODE_OFB of ALG_Encrypt that feeds the output block back into self->IV
RECURSIVE OFB_Encrypt_feedoutput(_, _, _, _)
OFB_Encrypt_feedoutput(s, str, i, buffer) ==
    IF i >= Len(str) THEN [self |-> s, buffer |-> buffer]
    ELSE LET temp == block_encrypt(s.st, s.IV)
             out == XorSeq(Bytes(str, i, BLOCK_SIZE), temp)
         IN  OFB_Encrypt_feedoutput([s EXCEPT !.IV = out], str,
                                    i + BLOCK_SIZE, buffer \o out)

\* MODE_OFB of ALG_Encrypt
RECURSIVE OFB_Encrypt(_, _, _, _)
OFB_Encrypt(s, str, i, buffer) ==
    IF i >= Len(str) THEN [self |-> s, buffer |-> buffer]
    ELSE LET temp == block_encrypt(s.st, s.IV)
         IN  OFB_Encrypt([s EXCEPT !.IV = temp], str, i + BLOCK_SIZE,
                         buffer \o XorSeq(Bytes(str, i, BLOCK_SIZE), temp))

\* MODE_OFB of ALG_Decrypt
RECURSIVE OFB_Decrypt(_, _, _, _)
OFB_Decrypt(s, str, i, buffer) ==
    IF i >= Len(str) THEN [self |-> s, buffer |-> buffer]
    ELSE LET temp == block_encrypt(s.st, s.IV)
             s1 == [s EXCEPT !.IV = temp]
         IN  OFB_Decrypt(s1, str, i + BLOCK_SIZE,
                         buffer \o XorSeq(Bytes(str, i, BLOCK_SIZE), s1.IV))

\* MODE_PGP of ALG_Encrypt: the loop over whole blocks from offset i, then
\* the remaining 1 to BLOCK_SIZE bytes
RECURSIVE PGP_EncryptBlocks(_, _, _, _)
PGP_EncryptBlocks(s, str, i, buffer) ==
    LET iv == block_encrypt(s.st, s.oldCipher)
    IN  IF i < Len(str) - BLOCK_SIZE
        THEN LET x == XorSeq(iv, Bytes(str, i, BLOCK_SIZE))
             IN  PGP_EncryptBlocks([s EXCEPT !.IV = x], str, i + BLOCK_SIZE,
                                   buffer \o x)
        ELSE LET r == Len(str) - i
                 x == XorSeq(Bytes(iv, 0, r), Bytes(str, i, r))
             IN  [self |-> [s EXCEPT !.IV = Poke(iv, 0, x), !.count = r],
                  buffer |-> buffer \o x]

\* MODE_PGP of ALG_Encrypt without "self->count += len"
PGP_Encrypt_nocount(s, str) ==
    IF Len(str) <= BLOCK_SIZE - s.count
    THEN LET x == XorSeq(Bytes(s.IV, s.count, Len(str)), str)
         IN  [self |-> [s EXCEPT !.IV = Poke(s.IV, s.count, x)], buffer |-> x]
    ELSE LET n == IF BLOCK_SIZE - s.count > 0 THEN BLOCK_SIZE - s.count ELSE 0
             x == XorSeq(Bytes(s.IV, s.count, n), Bytes(str, 0, n))
         IN  PGP_EncryptBlocks([s EXCEPT !.IV = Poke(s.IV, s.count, x),
                                         !.count = 0], str, n, x)

\* MODE_PGP of ALG_Encrypt
PGP_Encrypt(s, str) ==
    IF Len(str) <= BLOCK_SIZE - s.count
    THEN LET x == XorSeq(Bytes(s.IV, s.count, Len(str)), str)
         IN  [self |-> [s EXCEPT !.IV = Poke(s.IV, s.count, x),
                                 !.count = s.count + Len(str)],
              buffer |-> x]
    ELSE LET n == IF BLOCK_SIZE - s.count > 0 THEN BLOCK_SIZE - s.count ELSE 0
             x == XorSeq(Bytes(s.IV, s.count, n), Bytes(str, 0, n))
         IN  PGP_EncryptBlocks([s EXCEPT !.IV = Poke(s.IV, s.count, x),
                                         !.count = 0], str, n, x)

\* the loop of MODE_PGP of ALG_Decrypt with "self->count=len" at its end
RECURSIVE PGP_DecryptBlocks_lencount(_, _, _, _)
PGP_DecryptBlocks_lencount(s, str, i, buffer) ==
    LET iv == block_encrypt(s.st, s.oldCipher)
    IN  IF i < Len(str) - BLOCK_SIZE
        THEN LET in == Bytes(str, i, BLOCK_SIZE)
             IN  PGP_DecryptBlocks_lencount([s EXCEPT !.IV = in], str,
                                            i + BLOCK_SIZE,
                                            buffer \o XorSeq(iv, in))
        ELSE LET r == Len(str) - i
                 in == Bytes(str, i, r)
             IN  [self |-> [s EXCEPT !.IV = Poke(iv, 0, in),
                                     !.count = Len(str)],
                  buffer |-> buffer \o XorSeq(Bytes(iv, 0, r), in)]

\* MODE_PGP of ALG_Decrypt: the loop over whole blocks from offset i, then
\* the remaining 1 to BLOCK_SIZE bytes
RECURSIVE PGP_DecryptBlocks(_, _, _, _)
PGP_DecryptBlocks(s, str, i, buffer) ==
    LET iv == block_encrypt(s.st, s.oldCipher)
    IN  IF i < Len(str) - BLOCK_SIZE
        THEN LET in == Bytes(str, i, BLOCK_SIZE)
             IN  PGP_DecryptBlocks([s EXCEPT !.IV = in], str, i + BLOCK_SIZE,
                                   buffer \o XorSeq(iv, in))
        ELSE LET r == Len(str) - i
                 in == Bytes(str, i, r)
             IN  [self |-> [s EXCEPT !.IV = Poke(iv, 0, in), !.count = r],
                  buffer |-> buffer \o XorSeq(Bytes(iv, 0, r), in)]

\* MODE_PGP of ALG_Decrypt
PGP_Decrypt(s, str) ==
    IF Len(str) <= BLOCK_SIZE - s.count
    THEN [self |-> [s EXCEPT !.IV = Poke(s.IV, s.count, str),
                             !.count = s.count + Len(str)],
          buffer |-> XorSeq(Bytes(s.IV, s.count, Len(str)), str)]
    ELSE LET n == IF BLOCK_SIZE - s.count > 0 THEN BLOCK_SIZE - s.count ELSE 0
             in == Bytes(str, 0, n)
         IN  PGP_DecryptBlocks([s EXCEPT !.IV = Poke(s.IV, s.count, in),
                                         !.count = 0], str, n,
                               XorSeq(Bytes(s.IV, s.count, n), in))

\* An external callable given as counter: call number n + 1 behaves as
\* plan[n + 1] says ("ok": a string of BLOCK_SIZE bytes, "short": a string
\* of BLOCK_SIZE - 1 bytes, "raise": an exception, "notstring": an object
\* that is no string); calls beyond the plan are "ok".
Gen_call(g) ==
    LET kind == IF g.n < Len(g.plan) THEN g.plan[g.n + 1] ELSE "ok"
        blk == [j \in 1..BLOCK_SIZE |-> (g.seed + 31 * g.n + j) % 256]
    IN  [gen |-> [g EXCEPT !.n = g.n + 1],
         kind |-> kind,
         retval |-> IF kind = "ok" THEN blk
                    ELSE IF kind = "short" THEN Bytes(blk, 0, BLOCK_SIZE - 1)
                    ELSE <<>>]

\* PyObject_CallObject(self->counter, NULL) of the general path
CallCounter(s, c, g) ==
    IF s.counter = "Counter"
    THEN LET r == CounterObject_call(c)
         IN  [ctr |-> r.ctr, gen |-> g, retval |-> r.retval,
              kind |-> IF r.err = "none" THEN "ok" ELSE "raise",
              err |-> r.err]
    ELSE LET r == Gen_call(g)
         IN  [ctr |-> c, gen |-> r.gen, retval |-> r.retval, kind |-> r.kind,
              err |-> IF r.kind = "raise" THEN "raised" ELSE "none"]

\* the refill whose shortcut path does not look at the carry
CTR_Refill_nocarrycheck(s, c, g) ==
    IF s.counter_shortcut # 0
    THEN IF c.buf_size # BLOCK_SIZE
         THEN [self |-> s, ctr |-> c, gen |-> g, err |-> "protocol"]
         ELSE [self |-> [s EXCEPT !.IV = block_encrypt(s.st, c.val)],
               ctr |-> inc_func(c), gen |-> g, err |-> "none"]
    ELSE LET r == CallCounter(s, c, g)
         IN  IF r.kind = "raise"
             THEN [self |-> s, ctr |-> r.ctr, gen |-> r.gen, err |-> r.err]
             ELSE IF r.kind = "notstring"
             THEN [self |-> s, ctr |-> r.ctr, gen |-> r.gen, err |-> "notstring"]
             ELSE IF Len(r.retval) # BLOCK_SIZE
             THEN [self |-> s, ctr |-> r.ctr, gen |-> r.gen, err |-> "protocol"]
             ELSE [self |-> [s EXCEPT !.IV = block_encrypt(s.st, r.retval)],
                   ctr |-> r.ctr, gen |-> r.gen, err |-> "none"]

\* MODE_CTR of ALG_Encrypt: "Generate a new keystream block"
CTR_Refill(s, c, g) ==
    IF s.counter_shortcut # 0
    THEN IF c.carry # 0 /\ c.allow_wraparound = 0
         THEN [self |-> s, ctr |-> c, gen |-> g, err |-> "overflow"]
         ELSE IF c.buf_size # BLOCK_SIZE
         THEN [self |-> s, ctr |-> c, gen |-> g, err |-> "protocol"]
         ELSE [self |-> [s EXCEPT !.IV = block_encrypt(s.st, c.val)],
               ctr |-> inc_func(c), gen |-> g, err |-> "none"]
    ELSE LET r == CallCounter(s, c, g)
         IN  IF r.kind = "raise"
             THEN [self |-> s, ctr |-> r.ctr, gen |-> r.gen, err |-> r.err]
             ELSE IF r.kind = "notstring"
             THEN [self |-> s, ctr |-> r.ctr, gen |-> r.gen, err |-> "notstring"]
             ELSE IF Len(r.retval) # BLOCK_SIZE
             THEN [self |-> s, ctr |-> r.ctr, gen |-> r.gen, err |-> "protocol"]
             ELSE [self |-> [s EXCEPT !.IV = block_encrypt(s.st, r.retval)],
                   ctr |-> r.ctr, gen |-> r.gen, err |-> "none"]

\* the while loop that refills as soon as the keystream block is used up
RECURSIVE CTR_Loop_eager(_, _, _, _, _, _)
CTR_Loop_eager(s, c, g, str, i, buffer) ==
    IF i >= Len(str) THEN Ret(s, c, g, buffer, "none")
    ELSE IF Len(str) - i < BLOCK_SIZE - s.count
    THEN LET n == Len(str) - i
             x == XorSeq(Bytes(s.IV, s.count, n), Bytes(str, i, n))
         IN  Ret([s EXCEPT !.IV = Poke(s.IV, s.count, x),
                           !.count = s.count + n], c, g, buffer \o x, "none")
    ELSE LET n == BLOCK_SIZE - s.count
             x == XorSeq(Bytes(s.IV, s.count, n), Bytes(str, i, n))
             s1 == [s EXCEPT !.IV = Poke(s.IV, s.count, x),
                             !.count = BLOCK_SIZE]
             r == CTR_Refill(s1, c, g)
         IN  IF r.err # "none" THEN Ret(r.self, r.ctr, r.gen, <<>>, r.err)
             ELSE CTR_Loop_eager([r.self EXCEPT !.count = 0], r.ctr, r.gen,
                                 str, i + n, buffer \o x)

\* the while loop that returns the bytes made so far when a refill fails
RECURSIVE CTR_Loop_partial(_, _, _, _, _, _)
CTR_Loop_partial(s, c, g, str, i, buffer) ==
    IF i >= Len(str) THEN Ret(s, c, g, buffer, "none")
    ELSE IF Len(str) - i <= BLOCK_SIZE - s.count
    THEN LET n == Len(str) - i
             x == XorSeq(Bytes(s.IV, s.count, n), Bytes(str, i, n))
         IN  Ret([s EXCEPT !.IV = Poke(s.IV, s.count, x),
                           !.count = s.count + n], c, g, buffer \o x, "none")
    ELSE LET n == BLOCK_SIZE - s.count
             x == XorSeq(Bytes(s.IV, s.count, n), Bytes(str, i, n))
             s1 == [s EXCEPT !.IV = Poke(s.IV, s.count, x),
                             !.count = BLOCK_SIZE]
             r == CTR_Refill(s1, c, g)
         IN  IF r.err # "none"
             THEN Ret(r.self, r.ctr, r.gen, buffer \o x, r.err)
             ELSE CTR_Loop_partial([r.self EXCEPT !.count = 0], r.ctr, r.gen,
                                   str, i + n, buffer \o x)

\* MODE_CTR of ALG_Encrypt: the while loop from offset i
RECURSIVE CTR_Loop(_, _, _, _, _, _)
CTR_Loop(s, c, g, str, i, buffer) ==
    IF i >= Len(str) THEN Ret(s, c, g, buffer, "none")
    ELSE IF Len(str) - i <= BLOCK_SIZE - s.count
    THEN LET n == Len(str) - i
             x == XorSeq(Bytes(s.IV, s.count, n), Bytes(str, i, n))
         IN  Ret([s EXCEPT !.IV = Poke(s.IV, s.count, x),
                           !.count = s.count + n], c, g, buffer \o x, "none")
    ELSE LET n == BLOCK_SIZE - s.count
             x == XorSeq(Bytes(s.IV, s.count, n), Bytes(str, i, n))
             s1 == [s EXCEPT !.IV = Poke(s.IV, s.count, x),
                             !.count = BLOCK_SIZE]
             r == CTR_Refill(s1, c, g)
         IN  IF r.err # "none" THEN Ret(r.self, r.ctr, r.gen, <<>>, r.err)
             ELSE CTR_Loop([r.self EXCEPT !.count = 0], r.ctr, r.gen, str,
                           i + n, buffer \o x)

\* ALG_Encrypt: the checks of the input length
Encrypt_LengthError(s, str) ==
    IF Len(str) % BLOCK_SIZE # 0 /\ s.mode # MODE_CFB
       /\ s.mode # MODE_PGP /\ s.mode # MODE_CTR
    THEN "length"
    ELSE IF s.mode = MODE_CFB /\ Len(str) % (s.segment_size \div 8) # 0
    THEN "segment"
    ELSE "none"

\* ALG_Encrypt: switch(self->mode)
Encrypt_Switch(s, c, g, str) ==
    IF s.mode = MODE_ECB
    THEN Ret(s, c, g, ECB_Encrypt(s, str, 0), "none")
    ELSE IF s.mode = MODE_CBC
    THEN LET r == CBC_Encrypt(s, str, 0, <<>>)
         IN  Ret(r.self, c, g, r.buffer, "none")
    ELSE IF s.mode = MODE_CFB
    THEN LET r == CFB_Encrypt(s, str, 0, <<>>)
         IN  Ret(r.self, c, g, r.buffer, "none")
    ELSE IF s.mode = MODE_PGP
    THEN LET r == PGP_Encrypt(s, str)
         IN  Ret(r.self, c, g, r.buffer, "none")
    ELSE IF s.mode = MODE_OFB
    THEN LET r == OFB_Encrypt(s, str, 0, <<>>)
         IN  Ret(r.self, c, g, r.buffer, "none")
    ELSE IF s.mode = MODE_CTR
    THEN CTR_Loop(s, c, g, str, 0, <<>>)
    ELSE Ret(s, c, g, <<>>, "system")

\* ALG_Encrypt that takes the empty string for a string of a wrong length
ALG_Encrypt_rejectempty(s, c, g, str) ==
    IF Len(str) = 0 \/ Encrypt_LengthError(s, str) # "none"
    THEN Ret(s, c, g, <<>>, "length")
    ELSE Encrypt_Switch(s, c, g, str)

\* ALG_Encrypt
ALG_Encrypt(s, c, g, str) ==
    IF Len(str) = 0 THEN Ret(s, c, g, <<>>, "none")
    ELSE IF Encrypt_LengthError(s, str) # "none"
    THEN Ret(s, c, g, <<>>, Encrypt_LengthError(s, str))
    ELSE Encrypt_Switch(s, c, g, str)

\* the length checks of ALG_Decrypt with MODE_PGP not exempted
Decrypt_LengthError_pgp(s, str) ==
    IF Len(str) % BLOCK_SIZE # 0 /\ s.mode # MODE_CFB
    THEN "length"
    ELSE IF s.mode = MODE_CFB /\ Len(str) % (s.segment_size \div 8) # 0
    THEN "segment"
    ELSE "none"

\* ALG_Decrypt: the checks of the input length
Decrypt_LengthError(s, str) ==
    IF Len(str) % BLOCK_SIZE # 0 /\ s.mode # MODE_CFB /\ s.mode # MODE_PGP
    THEN "length"
    ELSE IF s.mode = MODE_CFB /\ Len(str) % (s.segment_size \div 8) # 0
    THEN "segment"
    ELSE "none"

\* ALG_Decrypt: switch(self->mode)
Decrypt_Switch(s, c, g, str) ==
    IF s.mode = MODE_ECB
    THEN Ret(s, c, g, ECB_Decrypt(s, str, 0), "none")
    ELSE IF s.mode = MODE_CBC
    THEN LET r == CBC_Decrypt(s, str, 0, <<>>)
         IN  Ret(r.self, c, g, r.buffer, "none")
    ELSE IF s.mode = MODE_CFB
    THEN LET r == CFB_Decrypt(s, str, 0, <<>>)
         IN  Ret(r.self, c, g, r.buffer, "none")
    ELSE IF s.mode = MODE_PGP
    THEN LET r == PGP_Decrypt(s, str)
         IN  Ret(r.self, c, g, r.buffer, "none")
    ELSE IF s.mode = MODE_OFB
    THEN LET r == OFB_Decrypt(s, str, 0, <<>>)
         IN  Ret(r.self, c, g, r.buffer, "none")
    ELSE Ret(s, c, g, <<>>, "system")

\* ALG_Decrypt without "CTR mode decryption is identical to encryption"
ALG_Decrypt_noctr(s, c, g, str) ==
    IF s.prf_mode # 0 THEN Ret(s, c, g, <<>>, "disabled")
    ELSE IF Len(str) = 0 THEN Ret(s, c, g, <<>>, "none")
    ELSE IF Decrypt_LengthError(s, str) # "none"
    THEN Ret(s, c, g, <<>>, Decrypt_LengthError(s, str))
    ELSE Decrypt_Switch(s, c, g, str)

\* ALG_Decrypt
ALG_Decrypt(s, c, g, str) ==
    IF s.prf_mode # 0 THEN Ret(s, c, g, <<>>, "disabled")
    ELSE IF s.mode = MODE_CTR THEN ALG_Encrypt(s, c, g, str)
    ELSE IF Len(str) = 0 THEN Ret(s, c, g, <<>>, "none")
    ELSE IF Decrypt_LengthError(s, str) # "none"
    THEN Ret(s, c, g, <<>>, Decrypt_LengthError(s, str))
    ELSE Decrypt_Switch(s, c, g, str)

\* ALG_Sync without the test of self->count
ALG_Sync_nocounttest(s, c, g) ==
    IF s.mode # MODE_PGP THEN Ret(s, c, g, <<>>, "system")
    ELSE LET moved == Poke(s.IV, BLOCK_SIZE - s.count, Bytes(s.IV, 0, s.count))
             filled == Poke(moved, 0,
                            Bytes(s.oldCipher, s.count, BLOCK_SIZE - s.count))
         IN  Ret([s EXCEPT !.IV = filled, !.count = 8], c, g, <<>>, "none")

\* ALG_Sync without the check of self->mode
ALG_Sync_anymode(s, c, g) ==
    IF s.count # 8
    THEN LET moved == Poke(s.IV, BLOCK_SIZE - s.count, Bytes(s.IV, 0, s.count))
             filled == Poke(moved, 0,
                            Bytes(s.oldCipher, s.count, BLOCK_SIZE - s.count))
         IN  Ret([s EXCEPT !.IV = filled, !.count = 8], c, g, <<>>, "none")
    ELSE Ret(s, c, g, <<>>, "none")

\* ALG_Sync without "self->count=8"
ALG_Sync_nocount(s, c, g) ==
    IF s.mode # MODE_PGP THEN Ret(s, c, g, <<>>, "system")
    ELSE IF s.count # 8
    THEN LET moved == Poke(s.IV, BLOCK_SIZE - s.count, Bytes(s.IV, 0, s.count))
             filled == Poke(moved, 0,
                            Bytes(s.oldCipher, s.count, BLOCK_SIZE - s.count))
         IN  Ret([s EXCEPT !.IV = filled], c, g, <<>>, "none")
    ELSE Ret(s, c, g, <<>>, "none")

\* ALG_Sync
ALG_Sync(s, c, g) ==
    IF s.mode # MODE_PGP THEN Ret(s, c, g, <<>>, "system")
    ELSE IF s.count # 8
    THEN LET moved == Poke(s.IV, BLOCK_SIZE - s.count, Bytes(s.IV, 0, s.count))
             filled == Poke(moved, 0,
                            Bytes(s.oldCipher, s.count, BLOCK_SIZE - s.count))
         IN  Ret([s EXCEPT !.IV = filled, !.count = 8], c, g, <<>>, "none")
    ELSE Ret(s, c, g, <<>>, "none")

\* ALG_SetMode that stores whatever it is given
ALG_SetMode_assign(s, c, g, enable_prf) ==
    Ret([s EXCEPT !.prf_mode = enable_prf], c, g, <<>>, "none")

\* ALG_SetMode
ALG_SetMode(s, c, g, enable_prf) ==
    IF enable_prf >= 1
    THEN Ret([s EXCEPT !.prf_mode = enable_prf], c, g, <<>>, "none")
    ELSE Ret(s, c, g, <<>>, "none")

-----------------------------------------------------------------------------
(* The counter on its own: a caller constructs a counter and calls it      *)

NoCall == [op |-> "new", str |-> <<>>, result |-> <<>>, err |-> "none"]

NoGen == [n |-> 0, plan |-> <<>>, seed |-> 0]

\* no counter object: the engine's counter is NULL or an external callable
NoCounter ==
    [prefix |-> <<>>, suffix |-> <<>>, nbytes |-> 0, buf_size |-> 0,
     val |-> <<>>, p |-> 0, shortcut_disabled |-> 0, allow_wraparound |-> 0,
     carry |-> 0, inc_func |-> NULL]

\* (prefix, suffix, initval) of the counters constructed
CounterEnvelopes ==
    {<<pre, suf, init>> :
        pre \in {<<>>, <<170>>},
        suf \in {<<>>, <<85, 86>>},
        init \in {<<0>>, <<250>>, <<0, 0>>, <<254, 255>>, <<255, 254>>,
                  <<255, 255>>}}

InitCounter ==
    \E endian \in {"LE", "BE"}, e \in CounterEnvelopes, wrap \in {0, 1} :
        /\ ctr = Counter_new(endian, e[1], e[2], e[3], wrap, 0).obj
        /\ ctr0 = ctr
        /\ call = NoCall
        /\ ncalls = 0
        /\ emitted = {}
        /\ nemitted = 0
        /\ BLOCK_SIZE = 8
        /\ self = NULL /\ gen = NoGen
        /\ twin = NULL /\ twinctr = NULL /\ twingen = NoGen
        /\ fed = <<>> /\ got = <<>> /\ twincall = NoCall

\* the caller calls the counter
CounterCall ==
    /\ ncalls < MaxCounterCalls
    /\ LET r == CounterObject_call(ctr)
       IN  /\ ctr' = r.ctr
           /\ call' = [op |-> "call", str |-> <<>>, result |-> r.retval,
                       err |-> r.err]
           /\ emitted' = IF r.err = "none" THEN emitted \cup {r.retval}
                         ELSE emitted
           /\ nemitted' = IF r.err = "none" THEN nemitted + 1 ELSE nemitted
    /\ ncalls' = ncalls + 1
    /\ UNCHANGED <<BLOCK_SIZE, self, gen, ctr0, twin, twinctr, twingen, fed,
                   got, twincall>>

\* the caller calls next_value(): result holds the integer returned
CounterNextValue ==
    /\ LET r == CounterObject_next_value(ctr)
       IN  /\ ctr' = r.ctr
           /\ call' = [op |-> "next_value", str |-> <<>>,
                       result |-> IF r.err = "none" THEN <<r.retval>>
                                  ELSE <<>>,
                       err |-> r.err]
    /\ UNCHANGED <<BLOCK_SIZE, self, gen, ncalls, emitted, nemitted, ctr0,
                   twin, twinctr, twingen, fed, got, twincall>>

NextCounter == CounterCall \/ CounterNextValue

SpecCounter == InitCounter /\ [][NextCounter]_vars

\* the value field of c as a number
RECURSIVE Number(_, _)
Number(c, i) ==
    IF i >= c.nbytes THEN 0
    ELSE LET b == c.val[c.p + i + 1]
         IN  IF c.inc_func = "LE" THEN b + 256 * Number(c, i + 1)
             ELSE b * (256 ^ (c.nbytes - 1 - i)) + Number(c, i + 1)

\* the value field of counter c
ValueOf(c) == Bytes(c.val, c.p, c.nbytes)

\* c was constructed with one value byte, 0
OneByteFromZero(c) == c.nbytes = 1 /\ ValueOf(c) = <<0>>

(* C4: a counter with allow_wraparound = 0 never returns the same string   *)
(* twice, a call made while carry is set returns nothing and changes       *)
(* nothing, and a call made while carry is clear returns the buffer as it  *)
(* was before the increment.                                               *)
C4_NoRepeatedValue ==
    /\ [](ctr.allow_wraparound = 0 => Cardinality(emitted) = nemitted)
    /\ [][(ctr.allow_wraparound = 0 /\ ncalls' = ncalls + 1) =>
            IF ctr.carry # 0
            THEN call'.err = "overflow" /\ emitted' = emitted /\ ctr' = ctr
            ELSE call'.err = "none" /\ call'.result = ctr.val]_vars

C4_Witness ==
    /\ ctr.allow_wraparound = 0
    /\ ctr.carry # 0
    /\ call.op = "call" /\ call.err = "overflow"
    /\ nemitted >= 6

\* the call that has just returned incremented the counter
Incremented == call'.op = "call" /\ call'.err = "none" /\ ncalls' = ncalls + 1

(* C18: over every sequence of next() and next_value(): the buffer is as   *)
(* long as prefix, value and suffix together; the prefix and suffix bytes  *)
(* are those given at construction; carry is clear before the first        *)
(* increment; after an increment carry is set exactly when that increment  *)
(* overflowed the value (so the increment after a wrap clears it), and a   *)
(* call that does not increment leaves carry as it was.                    *)
C18_CounterInvariants ==
    /\ [](/\ Len(ctr.val) = Len(ctr.prefix) + ctr.nbytes + Len(ctr.suffix)
          /\ ctr.buf_size = Len(ctr.val)
          /\ ctr.p = Len(ctr.prefix)
          /\ ctr.prefix = ctr0.prefix /\ ctr.suffix = ctr0.suffix
          /\ Bytes(ctr.val, 0, ctr.p) = ctr0.prefix
          /\ Bytes(ctr.val, ctr.p + ctr.nbytes, Len(ctr.suffix)) = ctr0.suffix
          /\ nemitted = 0 => ctr.carry = 0)
    /\ [][IF Incremented
          THEN ctr'.carry = (Number(ctr, 0) + 1) \div (256 ^ ctr.nbytes)
          ELSE ctr'.carry = ctr.carry]_vars

C18_Witness ==
    /\ ctr.allow_wraparound = 1 /\ ctr.carry = 0
    /\ ctr.prefix = <<170>> /\ ctr.suffix = <<85, 86>>
    /\ ctr.val = <<170, 1, 85, 86>>
    /\ nemitted = 7 /\ call.op = "next_value"

(* C19: next_value() returns the value field read as an unsigned integer  *)
(* in the byte order of the counter, the integer that an increment raises  *)
(* by one modulo 256^nbytes; it fails with the overflow error when         *)
(* allow_wraparound = 0 and carry is set; in both cases the counter is     *)
(* left as it was.                                                         *)
C19_PeekValue ==
    [][/\ call'.op = "next_value" =>
            /\ ctr' = ctr
            /\ IF ctr.carry # 0 /\ ctr.allow_wraparound = 0
               THEN call'.err = "overflow"
               ELSE /\ call'.err = "none"
                    /\ call'.result = <<Number(ctr, 0)>>
       /\ Incremented =>
            Number(ctr', 0) = (Number(ctr, 0) + 1) % (256 ^ ctr.nbytes)]_vars

C19_Witness ==
    /\ ctr.inc_func = "LE" /\ ValueOf(ctr) = <<0, 255>>
    /\ nemitted = 1 /\ ctr.suffix = <<85, 86>>
    /\ call.op = "next_value" /\ call.err = "none" /\ call.result = <<65280>>

\* the sequence x backwards
Reversed(x) == [j \in 1..Len(x) |-> x[Len(x) + 1 - j]]

\* counter c with the bytes of its value field in the opposite order
Mirrored(c) ==
    [c EXCEPT !.val = Bytes(c.val, 0, c.p) \o Reversed(ValueOf(c))
                      \o Bytes(c.val, c.p + c.nbytes, Len(c.suffix))]

(* C25: every successful next() replaces the value v, read in the byte     *)
(* order of the counter (little-endian: least significant byte first,      *)
(* big-endian: least significant byte last), by (v + 1) mod 256^nbytes and *)
(* leaves carry set exactly when v was all 0xFF; the big-endian increment  *)
(* of a value is the reverse of the little-endian increment of the         *)
(* reversed value, with the same carry.                                    *)
C25_IncrementArithmetic ==
    /\ [][Incremented =>
            /\ Number(ctr', 0) = (Number(ctr, 0) + 1) % (256 ^ ctr.nbytes)
            /\ ctr'.carry # 0
                   <=> \A k \in 1..ctr.nbytes : ValueOf(ctr)[k] = 255
            /\ ctr' = [ctr EXCEPT !.val = ctr'.val, !.carry = ctr'.carry]]_vars
    /\ [](/\ ValueOf(CounterBEObject_increment(ctr))
                 = Reversed(ValueOf(CounterLEObject_increment(Mirrored(ctr))))
          /\ CounterBEObject_increment(ctr).carry
                 = CounterLEObject_increment(Mirrored(ctr)).carry)

C25_Witness ==
    /\ ctr.inc_func = "BE" /\ ValueOf(ctr) = <<255, 0>>
    /\ ctr0.val = <<170, 254, 255>> /\ nemitted = 1
    /\ call.op = "call" /\ call.result = <<170, 254, 255>>
    /\ ctr.carry = 0

(* C5 as stated: one value byte starting at 0, allow_wraparound = 0: calls *)
(* 1..255 succeed, after call 255 the buffer is prefix + [0xFF] + suffix,  *)
(* and call 256 fails with an overflow error.                              *)
C5_Call256Fails ==
    (OneByteFromZero(ctr0) /\ ctr.allow_wraparound = 0) =>
        /\ (call.op = "call" /\ ncalls <= 255) => call.err = "none"
        /\ ncalls = 255 => ctr.val = ctr.prefix \o <<255>> \o ctr.suffix
        /\ (call.op = "call" /\ ncalls = 256) => call.err = "overflow"

(* C5 amended: calls 1..256 succeed (call 256 returns the buffer           *)
(* prefix + [0xFF] + suffix that call 255 left), and call 257 is the first *)
(* to fail with an overflow error.                                         *)
C5_Call257Fails ==
    (OneByteFromZero(ctr0) /\ ctr.allow_wraparound = 0) =>
        /\ (call.op = "call" /\ ncalls <= 256) => call.err = "none"
        /\ ncalls = 255 => ctr.val = ctr.prefix \o <<255>> \o ctr.suffix
        /\ (call.op = "call" /\ ncalls = 256) =>
               call.result = ctr.prefix \o <<255>> \o ctr.suffix
        /\ (call.op = "call" /\ ncalls >= 257) => call.err = "overflow"

C5_Witness ==
    /\ OneByteFromZero(ctr0) /\ ctr.allow_wraparound = 0
    /\ call.op = "call" /\ ncalls = 257 /\ call.err = "overflow"
    /\ nemitted = 256

-----------------------------------------------------------------------------
(* One engine and its callers *)

BlockSizes == {8, 16}

\* the string of n bytes seed + 37, seed + 74, ...
Str(n, seed) == [j \in 1..n |-> (seed + 37 * j) % 256]

InputSeeds == {201}

\* lengths of the strings given to encrypt and decrypt: empty, less than a
\* block (3 and BLOCK_SIZE - 3 together fill one), whole blocks, whole
\* blocks and a partial one
Lens ==
    {0, 3, BLOCK_SIZE - 3}
    \cup {k * BLOCK_SIZE + d : k \in 1..MaxBlocks, d \in {0, 3}}

Inputs == {Str(n, seed) : n \in Lens, seed \in InputSeeds}

\* the counters handed to ALGnew: a one-byte value about to wrap, with and
\* without wraparound, with and without the shortcut; a two-byte value
\* about to wrap; envelopes one byte shorter than a block
Counters ==
    {Counter_new("BE", Str(BLOCK_SIZE - 1, 7), <<>>, <<255>>, wrap, noshort).obj :
        wrap \in {0, 1}, noshort \in {0, 1}}
    \cup {Counter_new("LE", Str(BLOCK_SIZE - 3, 7), <<9>>, <<255, 255>>, 0, 0).obj}
    \cup {Counter_new("BE", Str(BLOCK_SIZE - 2, 7), <<>>, <<0>>, 1, noshort).obj :
        noshort \in {0, 1}}

\* the external callables handed to ALGnew
Generators ==
    {[n |-> 0, plan |-> plan, seed |-> 11] :
        plan \in {<<>>, <<"ok", "short">>, <<"raise">>, <<"ok", "notstring">>}}

\* the arguments of ALGnew: the IV is left out (ECB, CBC) or given
NewArgs ==
    {[key |-> <<9, 4>>, mode |-> m, IV |-> <<>>, counter |-> NULL,
      segment_size |-> 0, c |-> NoCounter, g |-> NoGen] :
        m \in {MODE_ECB, MODE_CBC}}
    \cup {[key |-> <<9, 4>>, mode |-> m, IV |-> Str(BLOCK_SIZE, 90),
           counter |-> NULL, segment_size |-> 0, c |-> NoCounter,
           g |-> NoGen] :
        m \in {MODE_CBC, MODE_PGP, MODE_OFB}}
    \cup {[key |-> <<9, 4>>, mode |-> MODE_CFB, IV |-> Str(BLOCK_SIZE, 90),
           counter |-> NULL, segment_size |-> seg, c |-> NoCounter,
           g |-> NoGen] :
        seg \in {0, 16, BLOCK_SIZE * 8}}
    \cup {[key |-> <<9, 4>>, mode |-> MODE_CTR, IV |-> <<>>,
           counter |-> "Counter", segment_size |-> 0, c |-> c, g |-> NoGen] :
        c \in Counters}
    \cup {[key |-> <<9, 4>>, mode |-> MODE_CTR, IV |-> Str(BLOCK_SIZE, 90),
           counter |-> "callable", segment_size |-> 0, c |-> NoCounter, g |-> g] :
        g \in Generators}

\* the state after construction: self is what ALGnew returned
Init ==
    /\ BLOCK_SIZE \in BlockSizes
    /\ \E a \in NewArgs :
        LET r == ALGnew(a.key, a.mode, a.IV, a.counter, a.segment_size, a.c)
        IN  /\ r.err = "none"
            /\ self = r.obj
            /\ ctr = a.c
            /\ gen = a.g
    /\ call = NoCall
    /\ ncalls = 0
    /\ emitted = {} /\ nemitted = 0 /\ ctr0 = ctr
    /\ twin = NULL /\ twinctr = NULL /\ twingen = NoGen
    /\ fed = <<>> /\ got = <<>> /\ twincall = NoCall

Unused == <<BLOCK_SIZE, emitted, nemitted, ctr0, twin, twinctr, twingen, fed,
            got, twincall>>

\* the objects after a method returned r
Returned(op, str, r) ==
    /\ self' = r.self
    /\ ctr' = r.ctr
    /\ gen' = r.gen
    /\ call' = [op |-> op, str |-> str, result |-> r.result, err |-> r.err]

\* self.encrypt(str)
Encrypt ==
    /\ ncalls < MaxCalls
    /\ \E str \in Inputs : Returned("encrypt", str, ALG_Encrypt(self, ctr, gen, str))
    /\ ncalls' = ncalls + 1
    /\ UNCHANGED Unused

\* self.decrypt(str)
Decrypt ==
    /\ ncalls < MaxCalls
    /\ \E str \in Inputs : Returned("decrypt", str, ALG_Decrypt(self, ctr, gen, str))
    /\ ncalls' = ncalls + 1
    /\ UNCHANGED Unused

\* self.sync()
Sync ==
    /\ Returned("sync", <<>>, ALG_Sync(self, ctr, gen))
    /\ UNCHANGED ncalls
    /\ UNCHANGED Unused

\* self.setMode(enable_prf)
SetMode ==
    /\ \E enable_prf \in {0, 1} :
        Returned("setMode", <<enable_prf>>, ALG_SetMode(self, ctr, gen, enable_prf))
    /\ UNCHANGED ncalls
    /\ UNCHANGED Unused

Next == Encrypt \/ Decrypt \/ Sync \/ SetMode

Spec == Init /\ [][Next]_vars

\* the error is one of the two "Input strings must be a multiple of ..."
IsLengthError(e) == e \in {"length", "segment"}

\* the length of str is not one the mode of s takes
BadLength(s, str) ==
    /\ Len(str) # 0
    /\ \/ s.mode \in {MODE_ECB, MODE_CBC, MODE_OFB} /\ Len(str) % BLOCK_SIZE # 0
       \/ s.mode = MODE_CFB /\ Len(str) % (s.segment_size \div 8) # 0

(* C3: an encrypt or decrypt call that fails leaves IV, oldCipher and      *)
(* count as they were before the call.                                     *)
C3_AllOrNothing ==
    [][(call'.op \in {"encrypt", "decrypt"} /\ call'.err # "none") =>
            /\ self'.IV = self.IV
            /\ self'.oldCipher = self.oldCipher
            /\ self'.count = self.count]_vars

(* C7 as stated: encrypt and decrypt fail with a length error exactly when *)
(* the input is not empty and its length is not a multiple of BLOCK_SIZE   *)
(* (ECB, CBC, OFB) or of segment_size/8 (CFB); never in PGP and CTR.       *)
C7_LengthErrorIff ==
    call.op \in {"encrypt", "decrypt"} =>
        (IsLengthError(call.err) <=> BadLength(self, call.str))

(* C7 amended: the same for encrypt, and for decrypt on an engine whose    *)
(* prf_mode is 0; decrypt on an engine whose prf_mode is set fails with    *)
(* the "decrypt function not enabled" error whatever the length.           *)
C7_LengthErrorIffEnabled ==
    /\ call.op = "encrypt" =>
           (IsLengthError(call.err) <=> BadLength(self, call.str))
    /\ (call.op = "decrypt" /\ self.prf_mode = 0) =>
           (IsLengthError(call.err) <=> BadLength(self, call.str))
    /\ (call.op = "decrypt" /\ self.prf_mode # 0) => call.err = "disabled"

C7_Witness ==
    /\ call.op = "decrypt" /\ self.prf_mode = 0
    /\ self.mode = MODE_CFB /\ self.segment_size = 16
    /\ Len(call.str) % 2 = 1
    /\ call.err = "segment"

(* C8: encrypt of the empty string, and decrypt of the empty string on an  *)
(* engine whose prf_mode is 0, return the empty string and change neither  *)
(* the engine nor its counter source.                                      *)
C8_EmptyInput ==
    [][(/\ call'.op \in {"encrypt", "decrypt"}
        /\ call'.str = <<>>
        /\ (call'.op = "decrypt" => self.prf_mode = 0)) =>
            /\ call'.err = "none"
            /\ call'.result = <<>>
            /\ self' = self /\ ctr' = ctr /\ gen' = gen]_vars

C8_Witness ==
    /\ call.op = "decrypt" /\ call.str = <<>> /\ call.err = "none"
    /\ self.mode = MODE_CTR /\ self.prf_mode = 0
    /\ self.count > 0 /\ self.count < BLOCK_SIZE
    /\ ncalls = 2

C10_CtrSymmetry ==
    (self.mode = MODE_CTR /\ self.prf_mode = 0) =>
        \A x \in Inputs :
            ALG_Decrypt(self, ctr, gen, x) = ALG_Encrypt(self, ctr, gen, x)

C10_Witness ==
    /\ self.mode = MODE_CTR /\ self.prf_mode = 0
    /\ call.op = "decrypt" /\ call.err = "none"
    /\ Len(call.result) > BLOCK_SIZE
    /\ self.count > 0 /\ self.count < BLOCK_SIZE
    /\ self.counter_shortcut = 1

\* the indexes into self->IV and self->oldCipher that a call of method op
\* with len bytes uses when the engine is in state s and the call passes
\* the checks at the head of the method
Indexes(s, op, len) ==
    IF op = "sync"
    THEN IF s.mode = MODE_PGP /\ s.count # 8
         THEN ((BLOCK_SIZE - s.count)..(BLOCK_SIZE - 1))
              \cup (0..(s.count - 1))
              \cup (s.count..(BLOCK_SIZE - 1))
              \cup (0..(BLOCK_SIZE - s.count - 1))
         ELSE {}
    ELSE IF op \notin {"encrypt", "decrypt"} \/ len = 0 THEN {}
    ELSE IF s.mode = MODE_ECB THEN {}
    ELSE IF s.mode \in {MODE_CBC, MODE_OFB} THEN 0..(BLOCK_SIZE - 1)
    ELSE IF s.mode = MODE_CFB
    THEN (0..(s.segment_size \div 8 - 1)) \cup (0..(BLOCK_SIZE - 1))
    ELSE IF len <= BLOCK_SIZE - s.count
    THEN s.count..(s.count + len - 1)
    ELSE (s.count..(BLOCK_SIZE - 1)) \cup (0..(BLOCK_SIZE - 1))

\* the call that has just returned was stopped at the head of the method
StoppedAtHead(e) == e \in {"length", "segment", "disabled", "system"}

(* C15: in every state reached by encrypt, decrypt and sync, in every mode *)
(* and for the block sizes 8 and 16, count is in 0..BLOCK_SIZE and IV and  *)
(* oldCipher are BLOCK_SIZE bytes long; every index a call uses into IV or *)
(* oldCipher is in 0..BLOCK_SIZE-1.                                        *)
C15_CountAndIndexesInRange ==
    /\ [](/\ self.count \in 0..BLOCK_SIZE
          /\ Len(self.IV) = BLOCK_SIZE
          /\ Len(self.oldCipher) = BLOCK_SIZE)
    /\ [][~StoppedAtHead(call'.err) =>
            \A k \in Indexes(self, call'.op, Len(call'.str)) :
                k \in 0..(BLOCK_SIZE - 1)]_vars

C15_Witness ==
    /\ BLOCK_SIZE = 16 /\ self.mode = MODE_PGP
    /\ call.op = "sync" /\ call.err = "none" /\ ncalls = 2
    /\ self.count = 8 /\ self.IV # Str(BLOCK_SIZE, 90)

\* block number j (from 0) of the string x
Block(x, j) == Bytes(x, j * BLOCK_SIZE, BLOCK_SIZE)

\* a CFB engine whose segment is a whole block has returned from a call
\* that transformed at least one block
FullBlockCfbCall ==
    /\ self.mode = MODE_CFB /\ self.segment_size = BLOCK_SIZE * 8
    /\ call'.op \in {"encrypt", "decrypt"} /\ ncalls' = ncalls + 1
    /\ call'.err = "none" /\ Len(call'.str) > 0

(* C16: CFB with segment_size = BLOCK_SIZE * 8: every block is combined    *)
(* with the transformation of the ciphertext block before it (of IV for    *)
(* the first), the ciphertext being the output of encrypt and the input of *)
(* decrypt; after the call IV is the last ciphertext block, and that is    *)
(* what the general shift-and-append update gives for a segment of         *)
(* BLOCK_SIZE bytes.                                                       *)
C16_FullBlockFeedback ==
    [][FullBlockCfbCall =>
        LET ct == IF call'.op = "encrypt" THEN call'.result ELSE call'.str
            nb == Len(call'.str) \div BLOCK_SIZE
        IN  /\ \A j \in 0..(nb - 1) :
                   Block(call'.result, j) =
                       XorSeq(Block(call'.str, j),
                              block_encrypt(self.st,
                                            IF j = 0 THEN self.IV
                                            ELSE Block(ct, j - 1)))
            /\ self'.IV = Block(ct, nb - 1)
            /\ self'.IV
                   = CFB_ShiftGeneral(self, Block(ct, nb - 1), BLOCK_SIZE).IV
            /\ Len(call'.result) = nb * BLOCK_SIZE]_vars

C16_Witness ==
    /\ self.mode = MODE_CFB /\ self.segment_size = BLOCK_SIZE * 8
    /\ ncalls = 2 /\ call.op = "decrypt" /\ call.err = "none"
    /\ Len(call.str) = 2 * BLOCK_SIZE
    /\ self.IV = Block(call.str, 1)
    /\ self.IV # Block(call.result, 1)

(* C17: sync() on an engine whose mode is not PGP fails with the          *)
(* SystemError and leaves IV, oldCipher and count, and the rest of the     *)
(* engine and its counter source, as they were.                            *)
C17_SyncOnlyPgp ==
    [][(call'.op = "sync" /\ self.mode # MODE_PGP) =>
        /\ call'.err = "system"
        /\ self'.IV = self.IV
        /\ self'.oldCipher = self.oldCipher
        /\ self'.count = self.count
        /\ self' = self /\ ctr' = ctr /\ gen' = gen]_vars

C17_Witness ==
    /\ self.mode = MODE_CBC /\ BLOCK_SIZE = 16
    /\ call.op = "sync" /\ call.err = "system"
    /\ ncalls = 1 /\ self.oldCipher # Zeros(BLOCK_SIZE)
    /\ self.count # 8

(* C20 as stated: on an engine whose mode is not PGP, oldCipher is all    *)
(* zero in every state.                                                    *)
C20_OldCipherStaysZero ==
    self.mode # MODE_PGP => self.oldCipher = Zeros(BLOCK_SIZE)

\* a CBC engine has decrypted at least one block
CbcDecrypted ==
    /\ self.mode = MODE_CBC /\ call'.op = "decrypt" /\ ncalls' = ncalls + 1
    /\ call'.err = "none" /\ Len(call'.str) > 0

(* C20 amended: in ECB, CFB, OFB and CTR mode oldCipher is all zero in     *)
(* every state; in CBC mode a decrypt call that transforms blocks leaves   *)
(* in oldCipher the IV it had before its last block (the block of input    *)
(* before the last, or the IV before the call), and every other call       *)
(* leaves oldCipher as it was.                                             *)
C20_OldCipherOnlyCbcDecrypt ==
    /\ [](self.mode \in {MODE_ECB, MODE_CFB, MODE_OFB, MODE_CTR} =>
              self.oldCipher = Zeros(BLOCK_SIZE))
    /\ [][self.mode = MODE_CBC =>
            IF CbcDecrypted
            THEN LET nb == Len(call'.str) \div BLOCK_SIZE
                 IN  self'.oldCipher = IF nb = 1 THEN self.IV
                                       ELSE Block(call'.str, nb - 2)
            ELSE self'.oldCipher = self.oldCipher]_vars

C20_Witness ==
    /\ self.mode = MODE_CBC /\ ncalls = 2
    /\ call.op = "decrypt" /\ call.err = "none"
    /\ Len(call.str) = 2 * BLOCK_SIZE
    /\ self.oldCipher = Block(call.str, 0)
    /\ self.oldCipher # Zeros(BLOCK_SIZE)

\* a PGP call has used up the rest of IV and transformed oldCipher
PgpCrossed ==
    /\ self.mode = MODE_PGP /\ call'.op \in {"encrypt", "decrypt"}
    /\ ncalls' = ncalls + 1 /\ call'.err = "none"
    /\ Len(call'.str) > BLOCK_SIZE - self.count

\* the offset at which the loop over whole blocks of MODE_PGP ends when it
\* starts at offset i of len bytes
RECURSIVE PgpRestOffset(_, _)
PgpRestOffset(i, len) ==
    IF i < len - BLOCK_SIZE THEN PgpRestOffset(i + BLOCK_SIZE, len) ELSE i

\* the cipher block completed last before the last transformation of a PGP
\* call on s with ciphertext ct
LastCipherBlock(s, ct) ==
    LET n == BLOCK_SIZE - s.count
        i == PgpRestOffset(n, Len(ct))
    IN  IF i > n THEN Bytes(ct, i - BLOCK_SIZE, BLOCK_SIZE)
        ELSE Poke(s.IV, s.count, Bytes(ct, 0, n))

(* C21: in PGP mode, when an encrypt or decrypt call has crossed a         *)
(* boundary and transformed oldCipher into a new IV, oldCipher holds the   *)
(* cipher block of the stream that was completed last before the last      *)
(* transformation (the ciphertext is the output of encrypt and the input   *)
(* of decrypt).                                                            *)
C21_OldCipherCachesBlock ==
    [][PgpCrossed =>
        self'.oldCipher =
            LastCipherBlock(self, IF call'.op = "encrypt" THEN call'.result
                                  ELSE call'.str)]_vars

(* C22: sync() on a PGP engine succeeds and never changes oldCipher; with *)
(* count = 8 on entry it changes nothing; otherwise it changes the engine: *)
(* the first count bytes of IV become its last bytes, the bytes of         *)
(* oldCipher from offset count become its first bytes, and count becomes   *)
(* 8.  A second sync() right after changes nothing.                        *)
C22_SyncShiftsUnlessEight ==
    [][(call'.op = "sync" /\ self.mode = MODE_PGP) =>
        /\ call'.err = "none"
        /\ self'.oldCipher = self.oldCipher
        /\ ctr' = ctr /\ gen' = gen
        /\ IF self.count = 8 THEN self' = self
           ELSE /\ self' # self
                /\ self'.count = 8
                /\ self'.IV = Bytes(self.oldCipher, self.count,
                                    BLOCK_SIZE - self.count)
                              \o Bytes(self.IV, 0, self.count)
                /\ self' = [self EXCEPT !.IV = self'.IV, !.count = 8]
        /\ ALG_Sync(self', ctr', gen').self = self']_vars

C22_Witness ==
    /\ BLOCK_SIZE = 8 /\ self.mode = MODE_PGP
    /\ call.op = "sync" /\ call.err = "none" /\ ncalls = 1
    /\ self.count = 8
    /\ Bytes(self.IV, 0, 5) = Zeros(5)
    /\ Bytes(self.IV, 5, 3) # Zeros(3)

\* the first encrypt or decrypt of a fresh PGP engine returns, having been
\* given at least one byte
FirstPgpCall ==
    /\ self.mode = MODE_PGP /\ ncalls = 0 /\ ncalls' = 1
    /\ call'.op \in {"encrypt", "decrypt"} /\ call'.err = "none"
    /\ Len(call'.str) > 0

\* the first block of x, or all of x when it is shorter
FirstBlock(x) ==
    Bytes(x, 0, IF Len(x) < BLOCK_SIZE THEN Len(x) ELSE BLOCK_SIZE)

(* C30 as stated: PGP, block sizes 8 and 16: count is BLOCK_SIZE after     *)
(* construction, and the first encrypt or decrypt call XORs its first      *)
(* bytes with the transformation of oldCipher, none of them with a byte of *)
(* the IV given at construction.                                           *)
C30_PgpStartsAtBoundary ==
    /\ []((self.mode = MODE_PGP /\ ncalls = 0) => self.count = BLOCK_SIZE)
    /\ [][FirstPgpCall =>
            FirstBlock(call'.result)
                = XorSeq(FirstBlock(call'.str),
                         Bytes(block_encrypt(self.st, self.oldCipher), 0,
                               Len(FirstBlock(call'.str))))]_vars

-----------------------------------------------------------------------------
(* Two engines constructed with the same arguments: self is given a        *)
(* stream in pieces; twin is then given, in one call, either the whole     *)
(* stream (the same method) or what self returned (decrypt after encrypt)  *)

NoTwinCall ==
    [role |-> "none", op |-> "new", str |-> <<>>, result |-> <<>>, err |-> "none"]

InitTwin ==
    /\ BLOCK_SIZE \in BlockSizes
    /\ \E a \in NewArgs :
        LET r == ALGnew(a.key, a.mode, a.IV, a.counter, a.segment_size, a.c)
        IN  /\ r.err = "none"
            /\ self = r.obj /\ ctr = a.c /\ gen = a.g
            /\ twin = r.obj /\ twinctr = a.c /\ twingen = a.g
    /\ call = NoCall
    /\ twincall = NoTwinCall
    /\ ncalls = 0
    /\ fed = <<>> /\ got = <<>>
    /\ emitted = {} /\ nemitted = 0 /\ ctr0 = ctr

\* self is given the next piece of the stream
Fed(r, str) ==
    /\ fed' = IF r.err = "none" THEN fed \o str ELSE fed
    /\ got' = IF r.err = "none" THEN got \o r.result ELSE got
    /\ ncalls' = ncalls + 1
    /\ UNCHANGED <<BLOCK_SIZE, emitted, nemitted, ctr0, twin, twinctr,
                   twingen, twincall>>

\* self.encrypt(str), all pieces so far having been encrypted
FeedEncrypt ==
    /\ twincall.role = "none"
    /\ ncalls < MaxCalls
    /\ call.op \in {"new", "encrypt"} /\ call.err = "none"
    /\ \E str \in Inputs :
        LET r == ALG_Encrypt(self, ctr, gen, str)
        IN  Returned("encrypt", str, r) /\ Fed(r, str)

\* self.decrypt(str), all pieces so far having been decrypted
FeedDecrypt ==
    /\ twincall.role = "none"
    /\ ncalls < MaxCalls
    /\ call.op \in {"new", "decrypt"} /\ call.err = "none"
    /\ \E str \in Inputs :
        LET r == ALG_Decrypt(self, ctr, gen, str)
        IN  Returned("decrypt", str, r) /\ Fed(r, str)

\* what twin's call leaves
TwinReturned(role, op, str, r) ==
    /\ twin' = r.self
    /\ twinctr' = r.ctr
    /\ twingen' = r.gen
    /\ twincall' = [role |-> role, op |-> op, str |-> str,
                    result |-> r.result, err |-> r.err]
    /\ UNCHANGED <<BLOCK_SIZE, self, ctr, gen, call, ncalls, emitted,
                   nemitted, ctr0, fed, got>>

\* twin is given the whole stream in one call of the method self was called
TwinWhole ==
    /\ twincall.role = "none"
    /\ ncalls >= 1 /\ call.err = "none"
    /\ IF call.op = "encrypt"
       THEN TwinReturned("whole", "encrypt", fed,
                         ALG_Encrypt(twin, twinctr, twingen, fed))
       ELSE TwinReturned("whole", "decrypt", fed,
                         ALG_Decrypt(twin, twinctr, twingen, fed))

\* twin decrypts what one encrypt call on self returned
TwinInverse ==
    /\ twincall.role = "none"
    /\ ncalls = 1 /\ call.op = "encrypt" /\ call.err = "none"
    /\ TwinReturned("inverse", "decrypt", got,
                    ALG_Decrypt(twin, twinctr, twingen, got))

NextTwin == FeedEncrypt \/ FeedDecrypt \/ TwinWhole \/ TwinInverse

SpecTwin == InitTwin /\ [][NextTwin]_vars

(* C1: in every mode, what one successful encrypt call on a fresh engine   *)
(* returned is decrypted, by a fresh engine constructed with the same      *)
(* arguments, to the string that was encrypted.                            *)
C1_RoundTrip ==
    twincall.role = "inverse" =>
        /\ twincall.err = "none"
        /\ twincall.result = fed
        /\ call.str = fed

C1_Witness ==
    /\ twincall.role = "inverse"
    /\ self.mode = MODE_CBC
    /\ Len(fed) = 2 * BLOCK_SIZE
    /\ got # fed
    /\ twincall.result = fed

(* C2: in every mode, when the calls encrypt(a), encrypt(b) on one engine  *)
(* succeed, one call encrypt(a \o b) on a fresh engine constructed with    *)
(* the same arguments succeeds and returns the two results concatenated,   *)
(* and both engines end with the same IV and count; the same for decrypt.  *)
C2_StreamContinuation ==
    twincall.role = "whole" =>
        /\ twincall.err = "none"
        /\ twincall.result = got
        /\ twin.IV = self.IV
        /\ twin.count = self.count

C2_Witness ==
    /\ twincall.role = "whole" /\ twincall.op = "encrypt"
    /\ self.mode = MODE_PGP
    /\ ncalls = 2
    /\ Len(call.str) = BLOCK_SIZE + 3
    /\ Len(fed) = BLOCK_SIZE + 6
    /\ twincall.result = got


\* the buffers of the Counter on its way from c to c2, at most n of them
RECURSIVE Taken(_, _, _)
Taken(c, c2, n) ==
    IF c = c2 \/ n = 0 THEN <<>>
    ELSE <<c.val>> \o Taken(inc_func(c), c2, n - 1)

\* the blocks the source yielded during a call that returned r
Yielded(s, c, g, r) ==
    IF s.counter = "Counter" THEN Taken(c, r.ctr, MaxBlocks + 2)
    ELSE [k \in 1..(r.gen.n - g.n) |->
             Gen_call([g EXCEPT !.n = g.n + k - 1]).retval]

\* the keystream of a call: what is left of IV, then the transformed blocks
RECURSIVE Keystream(_, _, _)
Keystream(s, blocks, k) ==
    IF k > Len(blocks) THEN <<>>
    ELSE block_encrypt(s.st, blocks[k]) \o Keystream(s, blocks, k + 1)

\* the blocks the counter source of self has yielded since construction
\* (twin and its source are as constructed)
YieldedSoFar ==
    IF self.counter = "Counter"
    THEN Taken(twinctr, ctr, MaxCalls * (MaxBlocks + 2))
    ELSE [k \in 1..(gen.n - twingen.n) |->
             Gen_call([twingen EXCEPT !.n = twingen.n + k - 1]).retval]

(* C27: a CTR engine whose calls have all succeeded and have been given N  *)
(* bytes in all, in any pieces: its counter source has been advanced       *)
(* ceil(N / BLOCK_SIZE) times, count is the number of bytes used of the    *)
(* last keystream block (BLOCK_SIZE before the first block), and byte j of *)
(* the output is byte j of the input XOR byte j of the keystream, the      *)
(* transformed blocks in a row.                                            *)
C27_LazyCounterUse ==
    (self.mode = MODE_CTR /\ twincall.role = "none" /\ call.err = "none") =>
        /\ Len(YieldedSoFar) = (Len(fed) + BLOCK_SIZE - 1) \div BLOCK_SIZE
        /\ self.count = IF Len(fed) = 0 THEN BLOCK_SIZE
                        ELSE ((Len(fed) - 1) % BLOCK_SIZE) + 1
        /\ got = XorSeq(fed, Bytes(Keystream(self, YieldedSoFar, 1), 0,
                                   Len(fed)))

C27_Witness ==
    /\ self.mode = MODE_CTR /\ self.counter = "Counter"
    /\ twincall.role = "none" /\ call.err = "none" /\ call.op = "decrypt"
    /\ ncalls = 2 /\ Len(fed) = BLOCK_SIZE + 6 /\ self.count = 6
    /\ Len(YieldedSoFar) = 2

\* the last BLOCK_SIZE bytes of x
LastBlock(x) == Bytes(x, Len(x) - BLOCK_SIZE, BLOCK_SIZE)

\* the ciphertext of a call: what encrypt returned, what decrypt was given
Ciphertext(op, str, result) ==
    IF op = "encrypt" THEN result ELSE IF op = "decrypt" THEN str ELSE <<>>

(* C24: a CFB engine with segment_size 8, 16 or BLOCK_SIZE * 8: every      *)
(* successful call leaves in IV the last BLOCK_SIZE bytes of the IV before *)
(* the call followed by the ciphertext of the call (the output of encrypt, *)
(* the input of decrypt), and a failed call leaves IV as it was; so after  *)
(* any sequence of calls IV is the last BLOCK_SIZE bytes of the IV of      *)
(* construction followed by all the ciphertext, and an engine that         *)
(* decrypts what another has encrypted ends with the same IV.              *)
C24_CfbShiftRegister ==
    /\ []((self.mode = MODE_CFB /\ twincall.role = "none") =>
              self.IV = LastBlock(twin.IV \o Ciphertext(call.op, fed, got)))
    /\ []((self.mode = MODE_CFB /\ twincall.role = "inverse"
           /\ twincall.err = "none") => twin.IV = self.IV)
    /\ [][(self.mode = MODE_CFB /\ ncalls' = ncalls + 1) =>
            self'.IV = IF call'.err = "none"
                       THEN LastBlock(self.IV \o Ciphertext(call'.op, call'.str,
                                                       call'.result))
                       ELSE self.IV]_vars

C24_Witness ==
    /\ self.mode = MODE_CFB /\ self.segment_size = 8
    /\ ncalls = 2 /\ Len(fed) = 6 /\ call.op = "encrypt"
    /\ twincall.role = "none"
    /\ self.IV = Bytes(twin.IV, 6, BLOCK_SIZE - 6) \o got
    /\ got # fed

-----------------------------------------------------------------------------
(* A PGP engine given a stream in pieces with sync() between the pieces;   *)
(* twin, constructed with the same arguments, is then given the whole      *)
(* stream in one call                                                      *)

PgpArgs == {a \in NewArgs : a.mode = MODE_PGP}

InitPgp ==
    /\ BLOCK_SIZE \in BlockSizes
    /\ \E a \in PgpArgs :
        LET r == ALGnew(a.key, a.mode, a.IV, a.counter, a.segment_size, a.c)
        IN  /\ r.err = "none"
            /\ self = r.obj /\ ctr = a.c /\ gen = a.g
            /\ twin = r.obj /\ twinctr = a.c /\ twingen = a.g
    /\ call = NoCall
    /\ twincall = NoTwinCall
    /\ ncalls = 0
    /\ fed = <<>> /\ got = <<>>
    /\ emitted = {} /\ nemitted = 0 /\ ctr0 = ctr

\* self.encrypt(str): the first piece, or the piece after a sync()
PgpEncrypt ==
    /\ twincall.role = "none"
    /\ ncalls < MaxCalls
    /\ call.op \in {"new", "sync"}
    /\ \E str \in Inputs \ {<<>>} :
        LET r == ALG_Encrypt(self, ctr, gen, str)
        IN  Returned("encrypt", str, r) /\ Fed(r, str)

\* self.sync() after a piece
PgpSync ==
    /\ twincall.role = "none"
    /\ ncalls < MaxCalls
    /\ call.op = "encrypt"
    /\ Returned("sync", <<>>, ALG_Sync(self, ctr, gen))
    /\ UNCHANGED <<BLOCK_SIZE, ncalls, emitted, nemitted, ctr0, twin, twinctr,
                   twingen, fed, got, twincall>>

\* twin.encrypt of the whole stream
PgpWhole ==
    /\ twincall.role = "none"
    /\ call.op = "encrypt"
    /\ TwinReturned("whole", "encrypt", fed,
                    ALG_Encrypt(twin, twinctr, twingen, fed))

NextPgp == PgpEncrypt \/ PgpSync \/ PgpWhole

SpecPgp == InitPgp /\ [][NextPgp]_vars

\* the stream was given as 5 bytes, sync(), 11 bytes, with blocks of 8
FiveSyncEleven ==
    /\ BLOCK_SIZE = 8
    /\ ncalls = 2 /\ call.op = "encrypt"
    /\ Len(call.str) = 11 /\ Len(fed) = 16

(* C11 as stated: PGP, blocks of 8: encrypt of 5 bytes, sync(), encrypt of *)
(* 11 bytes return together the 16 bytes that one encrypt call on the      *)
(* whole stream returns on a fresh engine.                                 *)
C11_SyncSameAsWhole ==
    (FiveSyncEleven /\ twincall.role = "whole") => twincall.result = got

(* C11 amended: PGP, blocks of 8: every piece, the first one and each one  *)
(* after a sync(), is encrypted as a fresh engine encrypts that piece      *)
(* alone (sync() restarts the keystream at a block boundary); of the 16    *)
(* bytes returned for 5 bytes, sync(), 11 bytes, the first 5 are those of  *)
(* the one-call encryption.                                                *)
C11_SyncRestartsStream ==
    /\ (BLOCK_SIZE = 8 /\ call.op = "encrypt" /\ twincall.role = "none") =>
           /\ call.err = "none"
           /\ call.result = ALG_Encrypt(twin, twinctr, twingen, call.str).result
    /\ (FiveSyncEleven /\ twincall.role = "whole") =>
           SubSeq(twincall.result, 1, 5) = SubSeq(got, 1, 5)

C11_Witness ==
    /\ FiveSyncEleven /\ twincall.role = "whole"
    /\ twincall.err = "none" /\ Len(got) = 16
    /\ self.count = 3


-----------------------------------------------------------------------------
(* Construction: a caller calls ALGnew with arguments of every kind        *)

\* before the call of ALGnew
NoEngine == [op |-> "none", str |-> <<>>, result |-> <<>>, err |-> "none"]

\* the arguments given to ALGnew, the accepted and the rejected ones
AnyArgs ==
    {[key |-> key, mode |-> m, IV |-> iv, counter |-> cnt,
      segment_size |-> seg,
      c |-> IF cnt = "Counter"
            THEN Counter_new("BE", Str(BLOCK_SIZE - 1, 7), <<>>, <<255>>, 0,
                             noshort).obj
            ELSE NoCounter] :
        key \in {<<>>, <<9, 4>>},
        m \in (MODE_ECB - 1)..(MODE_CTR + 1),
        iv \in {<<>>, Str(BLOCK_SIZE - 1, 90), Str(BLOCK_SIZE, 90),
                Str(BLOCK_SIZE + 1, 90)},
        cnt \in {NULL, "Counter", "callable", "object"},
        seg \in {-8, 0, 3, 8, 16, BLOCK_SIZE * 8, BLOCK_SIZE * 8 + 8},
        noshort \in {0, 1}}

InitNew ==
    /\ BLOCK_SIZE \in BlockSizes
    /\ self = NULL /\ ctr = NoCounter /\ gen = NoGen
    /\ call = NoEngine
    /\ ncalls = 0
    /\ emitted = {} /\ nemitted = 0 /\ ctr0 = NoCounter
    /\ twin = NULL /\ twinctr = NULL /\ twingen = NoGen
    /\ fed = <<>> /\ got = <<>> /\ twincall = NoCall

\* ALGnew(key, mode, IV, counter, segment_size): self is what it returned
New ==
    /\ call.op = "none"
    /\ \E a \in AnyArgs :
        LET r == ALGnew(a.key, a.mode, a.IV, a.counter, a.segment_size, a.c)
        IN  /\ self' = r.obj
            /\ ctr' = a.c
            /\ call' = [op |-> "ALGnew", str |-> <<a>>, result |-> <<>>,
                        err |-> r.err]
    /\ UNCHANGED <<BLOCK_SIZE, gen, ncalls, emitted, nemitted, ctr0, twin,
                   twinctr, twingen, fed, got, twincall>>

NextNew == New

SpecNew == InitNew /\ [][NextNew]_vars

\* the arguments the claim says are rejected
Rejected(a) ==
    LET seg == IF a.segment_size = 0 THEN 8 ELSE a.segment_size
    IN  \/ a.mode = MODE_CFB
           /\ ~(seg >= 1 /\ seg <= BLOCK_SIZE * 8 /\ seg % 8 = 0)
        \/ a.mode = MODE_CTR /\ a.counter = NULL
        \/ a.mode # MODE_CTR /\ a.counter # NULL
        \/ Len(a.IV) \notin {0, BLOCK_SIZE}
        \/ a.mode \notin MODE_ECB..MODE_CTR

\* construction failed and returned no engine
NoEngineCreated == call.err # "none" /\ self = NULL

\* construction returned an engine in the mode asked for
EngineCreated == call.err = "none" /\ self.mode = call.str[1].mode

-----------------------------------------------------------------------------
(* A CTR engine and its counter source: the blocks the source yields and   *)
(* the engine transforms into keystream are recorded in emitted            *)

\* the Counters handed to ALGnew: one value byte, one or two calls from
\* wrapping, in an envelope of BLOCK_SIZE bytes or one byte shorter
CtrCounters ==
    {Counter_new(endian, Str(BLOCK_SIZE - 1 - short, 7), <<>>, init, wrap,
                 noshort).obj :
        endian \in {"LE", "BE"}, short \in {0, 1}, init \in {<<254>>, <<255>>},
        wrap \in {0, 1}, noshort \in {0, 1}}

\* the external callables handed to ALGnew
CtrGenerators ==
    {[n |-> 0, plan |-> plan, seed |-> 11] :
        plan \in {<<>>, <<"short">>, <<"ok", "short">>, <<"ok", "raise">>,
                  <<"ok", "notstring">>}}

CtrArgs ==
    {[key |-> <<9, 4>>, mode |-> MODE_CTR, IV |-> <<>>,
      counter |-> "Counter", segment_size |-> 0, c |-> c, g |-> NoGen] :
        c \in CtrCounters}
    \cup {[key |-> <<9, 4>>, mode |-> MODE_CTR, IV |-> <<>>,
           counter |-> "callable", segment_size |-> 0, c |-> NoCounter,
           g |-> g] :
        g \in CtrGenerators}

InitCtr ==
    /\ BLOCK_SIZE \in BlockSizes
    /\ \E a \in CtrArgs :
        LET r == ALGnew(a.key, a.mode, a.IV, a.counter, a.segment_size, a.c)
        IN  /\ r.err = "none"
            /\ self = r.obj /\ ctr = a.c /\ gen = a.g
    /\ call = NoCall
    /\ ncalls = 0
    /\ emitted = {} /\ nemitted = 0 /\ ctr0 = ctr
    /\ twin = NULL /\ twinctr = NULL /\ twingen = NoGen
    /\ fed = <<>> /\ got = <<>> /\ twincall = NoCall

\* the blocks given to block_encrypt during a call that returned r: the
\* general path has taken a block from the source when it rejects it
Transformed(s, c, g, r) ==
    LET all == Yielded(s, c, g, r)
    IN  IF s.counter_shortcut = 0
           /\ r.err \in {"protocol", "notstring", "raised"}
        THEN SubSeq(all, 1, Len(all) - 1)
        ELSE all

\* the source and the record after a call that returned r
CtrReturned(op, str, r) ==
    /\ Returned(op, str, r)
    /\ emitted' = emitted \cup
           {Transformed(self, ctr, gen, r)[k] :
                k \in 1..Len(Transformed(self, ctr, gen, r))}
    /\ nemitted' = nemitted + Len(Transformed(self, ctr, gen, r))
    /\ ncalls' = ncalls + 1
    /\ UNCHANGED <<BLOCK_SIZE, ctr0, twin, twinctr, twingen, fed, got,
                   twincall>>

\* self.encrypt(str)
CtrEncrypt ==
    /\ ncalls < MaxCalls
    /\ \E str \in Inputs :
        CtrReturned("encrypt", str, ALG_Encrypt(self, ctr, gen, str))

\* self.decrypt(str)
CtrDecrypt ==
    /\ ncalls < MaxCalls
    /\ \E str \in Inputs :
        CtrReturned("decrypt", str, ALG_Decrypt(self, ctr, gen, str))

NextCtr == CtrEncrypt \/ CtrDecrypt

SpecCtr == InitCtr /\ [][NextCtr]_vars

\* the refills a call with n bytes makes when none of them fails
Refills(s, n) ==
    IF n <= BLOCK_SIZE - s.count THEN 0
    ELSE (n - (BLOCK_SIZE - s.count) + BLOCK_SIZE - 1) \div BLOCK_SIZE

\* the calls a Counter without wraparound answers before it fails
Remaining(c) ==
    IF c.carry # 0 THEN 0 ELSE 256 ^ c.nbytes - Number(c, 0)

CtrCallMade == ncalls' = ncalls + 1 /\ self.counter = "Counter"

(* C13: CTR with a Counter that has allow_wraparound = 0: every refill     *)
(* looks at the carry first, so a call fails with the overflow error and   *)
(* returns no output exactly when it needs more refills than the Counter   *)
(* has values left before wrapping (a call made after the wrap fails at    *)
(* its first refill and leaves the Counter as it was); the blocks          *)
(* transformed into keystream are all different, and a successful call     *)
(* returns its input XORed with the rest of IV followed by those blocks    *)
(* encrypted.                                                              *)
C13_OverflowBeforeRefill ==
    [][(CtrCallMade /\ ctr.allow_wraparound = 0) =>
        /\ (ctr.carry # 0 /\ Refills(self, Len(call'.str)) > 0) =>
               /\ call'.err = "overflow" /\ call'.result = <<>>
               /\ ctr' = ctr
        /\ ctr.buf_size = BLOCK_SIZE =>
               /\ call'.err = "overflow"
                      <=> Refills(self, Len(call'.str)) > Remaining(ctr)
               /\ call'.err # "none" => call'.result = <<>>
               /\ nemitted' - nemitted
                      = IF call'.err = "none"
                        THEN Refills(self, Len(call'.str))
                        ELSE Remaining(ctr)
               /\ call'.err = "none" =>
                      call'.result =
                          XorSeq(call'.str,
                                 Bytes(self.IV, self.count,
                                       BLOCK_SIZE - self.count)
                                 \o Keystream(self,
                                              Taken(ctr, ctr', MaxBlocks + 2),
                                              1))
        /\ Cardinality(emitted') = nemitted']_vars

C13_Witness ==
    /\ self.counter = "Counter" /\ ctr.allow_wraparound = 0
    /\ ctr.buf_size = BLOCK_SIZE
    /\ ncalls = 2 /\ nemitted = 2
    /\ call.op = "encrypt" /\ call.err = "overflow" /\ call.result = <<>>
    /\ Len(call.str) = BLOCK_SIZE + 3
    /\ ctr.carry # 0

\* call number k of the external callable g from now is the first that does
\* not yield a string of BLOCK_SIZE bytes, and it yields a string
FirstShort(g, k) ==
    /\ \A j \in 1..(k - 1) : Gen_call([g EXCEPT !.n = g.n + j - 1]).kind = "ok"
    /\ Gen_call([g EXCEPT !.n = g.n + k - 1]).kind = "short"

\* a call with n bytes comes to a refill at which the source yields a block
\* whose length is not BLOCK_SIZE
YieldsWrongLength(s, c, g, n) ==
    IF s.counter = "Counter"
    THEN /\ Refills(s, n) > 0
         /\ c.buf_size # BLOCK_SIZE
         /\ ~(c.carry # 0 /\ c.allow_wraparound = 0)
    ELSE \E k \in 1..Refills(s, n) : FirstShort(g, k)

(* C14: a CTR call fails with the counter-protocol error and returns no    *)
(* output when, at one of its refills, the source (an external callable,   *)
(* or a Counter whose buffer is not BLOCK_SIZE long) yields a block whose  *)
(* length is not BLOCK_SIZE; the error is raised in no other case.         *)
C14_WrongLengthBlock ==
    [][ncalls' = ncalls + 1 =>
        /\ YieldsWrongLength(self, ctr, gen, Len(call'.str)) =>
               call'.err = "protocol" /\ call'.result = <<>>
        /\ call'.err = "protocol" =>
               YieldsWrongLength(self, ctr, gen, Len(call'.str))]_vars

C14_Witness ==
    /\ self.counter = "callable" /\ gen.plan = <<"ok", "short">> /\ gen.n = 2
    /\ ncalls = 1 /\ Len(call.str) = BLOCK_SIZE + 3
    /\ call.op = "decrypt" /\ call.err = "protocol" /\ call.result = <<>>


-----------------------------------------------------------------------------
(* Two OFB engines constructed with the same arguments and given different *)
(* data: self in calls of whole blocks, twin block by block; fed and got   *)
(* are the input and output of self so far, twincall.str and               *)
(* twincall.result those of twin                                           *)

OfbArgs == {a \in NewArgs : a.mode = MODE_OFB}

InitOfb ==
    /\ BLOCK_SIZE \in BlockSizes
    /\ \E a \in OfbArgs :
        LET r == ALGnew(a.key, a.mode, a.IV, a.counter, a.segment_size, a.c)
        IN  /\ r.err = "none"
            /\ self = r.obj /\ ctr = a.c /\ gen = a.g
            /\ twin = r.obj /\ twinctr = a.c /\ twingen = a.g
    /\ call = NoCall
    /\ twincall = NoTwinCall
    /\ ncalls = 0
    /\ fed = <<>> /\ got = <<>>
    /\ emitted = {} /\ nemitted = 0 /\ ctr0 = ctr

\* self.encrypt(str) or self.decrypt(str) with str of 0..MaxBlocks blocks
OfbSelf ==
    /\ ncalls < MaxCalls
    /\ \E k \in 0..MaxBlocks, op \in {"encrypt", "decrypt"} :
        LET str == Str(k * BLOCK_SIZE, 201)
            r == IF op = "encrypt" THEN ALG_Encrypt(self, ctr, gen, str)
                 ELSE ALG_Decrypt(self, ctr, gen, str)
        IN  Returned(op, str, r) /\ Fed(r, str)

\* twin.encrypt(str) or twin.decrypt(str) with the next block of its data
OfbTwin ==
    /\ Len(twincall.str) < MaxCalls * MaxBlocks * BLOCK_SIZE
    /\ \E op \in {"encrypt", "decrypt"} :
        LET str == [j \in 1..BLOCK_SIZE |->
                       (77 + 37 * (Len(twincall.str) + j)) % 256]
            r == IF op = "encrypt"
                 THEN ALG_Encrypt(twin, twinctr, twingen, str)
                 ELSE ALG_Decrypt(twin, twinctr, twingen, str)
        IN  /\ twin' = r.self /\ twinctr' = r.ctr /\ twingen' = r.gen
            /\ twincall' = [role |-> "other", op |-> op,
                            str |-> twincall.str \o str,
                            result |-> twincall.result \o r.result,
                            err |-> r.err]
    /\ UNCHANGED <<BLOCK_SIZE, self, ctr, gen, call, ncalls, emitted,
                   nemitted, ctr0, fed, got>>

NextOfb == OfbSelf \/ OfbTwin

SpecOfb == InitOfb /\ [][NextOfb]_vars

(* C23: two OFB engines constructed alike and given different data, in     *)
(* different chunkings, by encrypt or decrypt: every call succeeds, and    *)
(* whenever both have been given the same number of bytes they hold the    *)
(* same IV and the XOR of their outputs is the XOR of their inputs.        *)
C23_OfbDataIndependent ==
    /\ call.err = "none" /\ twincall.err = "none"
    /\ Len(got) = Len(fed) /\ Len(twincall.result) = Len(twincall.str)
    /\ Len(fed) = Len(twincall.str) =>
           /\ self.IV = twin.IV
           /\ XorSeq(got, twincall.result) = XorSeq(fed, twincall.str)

C23_Witness ==
    /\ ncalls = 1 /\ Len(fed) = 2 * BLOCK_SIZE
    /\ Len(twincall.str) = 2 * BLOCK_SIZE
    /\ call.op = "encrypt" /\ twincall.op = "decrypt"
    /\ fed # twincall.str /\ got # twincall.result
    /\ self.IV = twin.IV /\ self.IV # Str(BLOCK_SIZE, 90)


-----------------------------------------------------------------------------
(* Two CTR engines constructed with the same arguments and with Counters   *)
(* that differ in disable_shortcut only: self refills through the          *)
(* shortcut, twin through the call of the Counter; both are given the same *)
(* calls                                                                   *)

InitPaths ==
    /\ BLOCK_SIZE \in BlockSizes
    /\ \E a \in CtrArgs :
        /\ a.counter = "Counter" /\ a.c.shortcut_disabled = 0
        /\ LET c2 == [a.c EXCEPT !.shortcut_disabled = 1]
               r == ALGnew(a.key, a.mode, a.IV, a.counter, a.segment_size, a.c)
               r2 == ALGnew(a.key, a.mode, a.IV, a.counter, a.segment_size, c2)
           IN  /\ r.err = "none" /\ r2.err = "none"
               /\ self = r.obj /\ ctr = a.c /\ gen = a.g
               /\ twin = r2.obj /\ twinctr = c2 /\ twingen = a.g
    /\ call = NoCall
    /\ twincall = NoTwinCall
    /\ ncalls = 0
    /\ fed = <<>> /\ got = <<>>
    /\ emitted = {} /\ nemitted = 0 /\ ctr0 = ctr

\* what the same call leaves in the two engines
BothReturned(op, str, r, r2) ==
    /\ Returned(op, str, r)
    /\ twin' = r2.self /\ twinctr' = r2.ctr /\ twingen' = r2.gen
    /\ twincall' = [role |-> "general", op |-> op, str |-> str,
                    result |-> r2.result, err |-> r2.err]
    /\ ncalls' = ncalls + 1
    /\ UNCHANGED <<BLOCK_SIZE, emitted, nemitted, ctr0, fed, got>>

\* self.encrypt(str) and twin.encrypt(str)
BothEncrypt ==
    /\ ncalls < MaxCalls
    /\ \E str \in Inputs :
        BothReturned("encrypt", str, ALG_Encrypt(self, ctr, gen, str),
                     ALG_Encrypt(twin, twinctr, twingen, str))

\* self.decrypt(str) and twin.decrypt(str)
BothDecrypt ==
    /\ ncalls < MaxCalls
    /\ \E str \in Inputs :
        BothReturned("decrypt", str, ALG_Decrypt(self, ctr, gen, str),
                     ALG_Decrypt(twin, twinctr, twingen, str))

NextPaths == BothEncrypt \/ BothDecrypt

SpecPaths == InitPaths /\ [][NextPaths]_vars

\* the two engines and their Counters are in the same state
SameEngineState ==
    /\ self.IV = twin.IV /\ self.count = twin.count
    /\ ctr.val = twinctr.val /\ ctr.carry = twinctr.carry

(* C26: a CTR engine that refills through the shortcut and one that        *)
(* refills through the call of an identical Counter, given the same calls, *)
(* return the same output and the same error and are left with the same    *)
(* IV, count, Counter value and carry after every call, failed calls       *)
(* included.                                                               *)
C26_PathsAgree ==
    /\ call.result = twincall.result
    /\ call.err = twincall.err
    /\ SameEngineState

-----------------------------------------------------------------------------
(* A CTR engine and the caller share one Counter without wraparound: the   *)
(* engine takes its blocks from it, the caller calls it and asks for its   *)
(* next_value() as well.  twincall is the last call the caller made on the *)
(* Counter itself.                                                         *)

InitSticky ==
    /\ BLOCK_SIZE \in BlockSizes
    /\ \E c \in CtrCounters :
        LET r == ALGnew(<<9, 4>>, MODE_CTR, <<>>, "Counter", 0, c)
        IN  /\ c.allow_wraparound = 0
            /\ r.err = "none"
            /\ self = r.obj /\ ctr = c
    /\ gen = NoGen
    /\ call = NoCall
    /\ ncalls = 0
    /\ emitted = {} /\ nemitted = 0 /\ ctr0 = ctr
    /\ twin = NULL /\ twinctr = NULL /\ twingen = NoGen
    /\ fed = <<>> /\ got = <<>> /\ twincall = NoCall

\* the caller calls the Counter
StickyCall ==
    /\ LET r == CounterObject_call(ctr)
       IN  /\ ctr' = r.ctr
           /\ twincall' = [op |-> "call", str |-> <<>>, result |-> r.retval,
                           err |-> r.err]
    /\ UNCHANGED <<BLOCK_SIZE, self, gen, call, ncalls, emitted, nemitted,
                   ctr0, twin, twinctr, twingen, fed, got>>

\* the caller calls next_value() of the Counter
StickyNextValue ==
    /\ LET r == CounterObject_next_value(ctr)
       IN  /\ ctr' = r.ctr
           /\ twincall' = [op |-> "next_value", str |-> <<>>,
                           result |-> IF r.err = "none" THEN <<r.retval>>
                                      ELSE <<>>,
                           err |-> r.err]
    /\ UNCHANGED <<BLOCK_SIZE, self, gen, call, ncalls, emitted, nemitted,
                   ctr0, twin, twinctr, twingen, fed, got>>

NextSticky == StickyCall \/ StickyNextValue \/ CtrEncrypt \/ CtrDecrypt

SpecSticky == InitSticky /\ [][NextSticky]_vars

(* C28: a Counter without wraparound: a call of the Counter that fails     *)
(* with the overflow error leaves value and carry as they were, and once a *)
(* call has failed so, the Counter never changes again, every later call   *)
(* and next_value() fails with the overflow error, and every later encrypt *)
(* or decrypt of the CTR engine that needs a refill fails with it and      *)
(* returns nothing.                                                        *)
C28_OverflowSticky ==
    [][/\ twincall'.err = "overflow" /\ twincall.err # "overflow" =>
              ctr' = ctr
       /\ twincall.err = "overflow" =>
              /\ ctr' = ctr
              /\ twincall'.err = "overflow" /\ twincall'.result = <<>>
              /\ (ncalls' = ncalls + 1 /\ Refills(self, Len(call'.str)) > 0)
                     => call'.err = "overflow" /\ call'.result = <<>>]_vars

C28_Witness ==
    /\ twincall.op = "next_value" /\ twincall.err = "overflow"
    /\ ctr.carry # 0 /\ ctr.buf_size = BLOCK_SIZE
    /\ self.counter_shortcut # 0
    /\ ncalls = 2 /\ call.op = "decrypt" /\ call.err = "overflow"
    /\ nemitted = 1

-----------------------------------------------------------------------------
(* Two CTR engines, self and twin, built on one Counter with the shortcut, *)
(* each encrypting on a thread of its own.  ALG_Encrypt releases the       *)
(* interpreter lock before its loop and the shortcut refill does not take  *)
(* it back, so the threads interleave at every access to the Counter: the  *)
(* test of carry and buf_size, the read of val by block_encrypt, and the   *)
(* load and the two stores of the increment (the Counters here have one    *)
(* value byte, so the increment loop runs once).  call and twincall hold   *)
(* each thread's position (pc), its index i into str, the bytes written to *)
(* buffer (result) and the tmp of the increment; emitted holds, for every  *)
(* block given to block_encrypt, the engine that transformed it.           *)

RaceIdle ==
    [op |-> "new", str |-> <<>>, result |-> <<>>, err |-> "none",
     pc |-> "idle", i |-> 0, tmp |-> 0]

RaceCounters == {c \in CtrCounters : c.shortcut_disabled = 0}

RaceInputs == {Str(3, 1), Str(BLOCK_SIZE + 3, 1)}

InitRace ==
    /\ BLOCK_SIZE \in BlockSizes
    /\ \E c \in RaceCounters :
        LET r == ALGnew(<<9, 4>>, MODE_CTR, <<>>, "Counter", 0, c)
        IN  /\ r.err = "none"
            /\ self = r.obj /\ twin = r.obj /\ ctr = c
    /\ gen = NoGen /\ twingen = NoGen /\ twinctr = NULL
    /\ call = RaceIdle /\ twincall = RaceIdle
    /\ ncalls = 0
    /\ emitted = {} /\ nemitted = 0 /\ ctr0 = ctr
    /\ fed = <<>> /\ got = <<>>

\* engine e and its thread
RaceEngine(e) == IF e = 1 THEN self ELSE twin

RaceThread(e) == IF e = 1 THEN call ELSE twincall

\* a step of thread e leaves engine e as s and the thread as k
RaceSet(e, s, k) ==
    IF e = 1
    THEN self' = s /\ call' = k /\ UNCHANGED <<twin, twincall>>
    ELSE twin' = s /\ twincall' = k /\ UNCHANGED <<self, call>>

\* thread e enters encrypt(str): the lock is released before the loop
RaceBegin(e) ==
    /\ RaceThread(e).pc = "idle"
    /\ ncalls < MaxCalls
    /\ \E str \in RaceInputs :
        RaceSet(e, RaceEngine(e),
                [op |-> "encrypt", str |-> str, result |-> <<>>,
                 err |-> "none", pc |-> "loop", i |-> 0, tmp |-> 0])
    /\ ncalls' = ncalls + 1
    /\ UNCHANGED <<BLOCK_SIZE, ctr, gen, emitted, nemitted, ctr0, twinctr,
                   twingen, fed, got>>

\* the head of the while loop: the call returns, or takes what it needs of
\* the current keystream block and returns, or uses the block up
RaceLoop(e) ==
    LET s == RaceEngine(e)
        k == RaceThread(e)
        n == IF Len(k.str) - k.i <= BLOCK_SIZE - s.count
             THEN Len(k.str) - k.i ELSE BLOCK_SIZE - s.count
        x == XorSeq(Bytes(s.IV, s.count, n), Bytes(k.str, k.i, n))
    IN  /\ k.pc = "loop"
        /\ IF k.i >= Len(k.str)
           THEN RaceSet(e, s, [k EXCEPT !.pc = "idle"])
           ELSE IF Len(k.str) - k.i <= BLOCK_SIZE - s.count
           THEN RaceSet(e, [s EXCEPT !.IV = Poke(s.IV, s.count, x),
                                     !.count = s.count + n],
                        [k EXCEPT !.result = k.result \o x,
                                  !.i = Len(k.str), !.pc = "idle"])
           ELSE RaceSet(e, [s EXCEPT !.IV = Poke(s.IV, s.count, x),
                                     !.count = BLOCK_SIZE],
                        [k EXCEPT !.result = k.result \o x,
                                  !.i = k.i + n, !.pc = "check"])
        /\ UNCHANGED <<BLOCK_SIZE, ctr, gen, ncalls, emitted, nemitted, ctr0,
                       twinctr, twingen, fed, got>>

\* the shortcut looks at carry and buf_size
RaceCheck(e) ==
    LET k == RaceThread(e)
    IN  /\ k.pc = "check"
        /\ IF ctr.carry # 0 /\ ctr.allow_wraparound = 0
           THEN RaceSet(e, RaceEngine(e),
                        [k EXCEPT !.result = <<>>, !.err = "overflow",
                                  !.pc = "idle"])
           ELSE IF ctr.buf_size # BLOCK_SIZE
           THEN RaceSet(e, RaceEngine(e),
                        [k EXCEPT !.result = <<>>, !.err = "protocol",
                                  !.pc = "idle"])
           ELSE RaceSet(e, RaceEngine(e), [k EXCEPT !.pc = "transform"])
        /\ UNCHANGED <<BLOCK_SIZE, ctr, gen, ncalls, emitted, nemitted, ctr0,
                       twinctr, twingen, fed, got>>

\* block_encrypt reads val and writes the engine's IV
RaceTransform(e) ==
    LET s == RaceEngine(e)
        k == RaceThread(e)
    IN  /\ k.pc = "transform"
        /\ RaceSet(e, [s EXCEPT !.IV = block_encrypt(s.st, ctr.val)],
                   [k EXCEPT !.pc = "load"])
        /\ emitted' = emitted \cup {[by |-> e, blk |-> ctr.val]}
        /\ nemitted' = nemitted + 1
        /\ UNCHANGED <<BLOCK_SIZE, ctr, gen, ncalls, ctr0, twinctr, twingen,
                       fed, got>>

\* the increment: tmp = *p + carry, with carry = 1
RaceLoad(e) ==
    LET k == RaceThread(e)
    IN  /\ k.pc = "load"
        /\ RaceSet(e, RaceEngine(e),
                   [k EXCEPT !.tmp = ctr.val[ctr.p + 1] + 1, !.pc = "store"])
        /\ UNCHANGED <<BLOCK_SIZE, ctr, gen, ncalls, emitted, nemitted, ctr0,
                       twinctr, twingen, fed, got>>

\* the increment: *p = tmp & 0xff
RaceStore(e) ==
    LET k == RaceThread(e)
    IN  /\ k.pc = "store"
        /\ ctr' = [ctr EXCEPT !.val[ctr.p + 1] = k.tmp % 256]
        /\ RaceSet(e, RaceEngine(e), [k EXCEPT !.pc = "carry"])
        /\ UNCHANGED <<BLOCK_SIZE, gen, ncalls, emitted, nemitted, ctr0,
                       twinctr, twingen, fed, got>>

\* the increment: self->carry = carry; then the engine's count = 0
RaceCarry(e) ==
    LET s == RaceEngine(e)
        k == RaceThread(e)
    IN  /\ k.pc = "carry"
        /\ ctr' = [ctr EXCEPT !.carry = k.tmp \div 256]
        /\ RaceSet(e, [s EXCEPT !.count = 0], [k EXCEPT !.pc = "loop"])
        /\ UNCHANGED <<BLOCK_SIZE, gen, ncalls, emitted, nemitted, ctr0,
                       twinctr, twingen, fed, got>>

NextRace ==
    \E e \in {1, 2} :
        \/ RaceBegin(e) \/ RaceLoop(e) \/ RaceCheck(e) \/ RaceTransform(e)
        \/ RaceLoad(e) \/ RaceStore(e) \/ RaceCarry(e)

SpecRace == InitRace /\ [][NextRace]_vars

(* C29 as stated: two CTR engines share a Counter through the shortcut and *)
(* encrypt on two threads; in every interleaving of their refill steps no  *)
(* counter block is transformed into keystream by both engines.            *)
C29_EachValueOneEngine ==
    \A x \in emitted, y \in emitted : x.blk = y.blk => x.by = y.by

=============================================================================
